---- MODULE Spec2Model ----
(***************************************************************************)
(* The Docker API abstraction and context-switching layer of vscode-docker *)
(* as a state machine: the context manager (memoized context list,         *)
(* refresh, change event), the client selector that swaps the installed    *)
(* backend (ext.dockerClient), the local Dockerode client's per-call       *)
(* wrapper and the remote DockerServe client's operation surface.          *)
(*                                                                         *)
(* One action is the code that runs between two suspension points of the   *)
(* cooperative scheduler (from a call or a promise settling to the next    *)
(* await).                                                                 *)
(***************************************************************************)
EXTENDS Integers, Sequences, FiniteSets, TLC

VARIABLES
    env,        \* the docker.host setting and the DOCKER_HOST environment variable
    cache,      \* DockerContextManager.contextsCache (an AsyncLazy)
    loads,      \* the loadContexts() promises created so far
    refreshes,  \* the refresh() invocations
    readers,    \* the getContexts() invocations
    client,     \* ext.dockerClient: the installed backend instance
    nextId,     \* identity of the next backend instance constructed
    disposals,  \* the backend instances dispose() ran on, in order
    events,     \* what emitter.fire delivered to onContextChanged, in order
    calls,      \* the DockerApiClient operations invoked by consumers
    engine,     \* what the Docker engine answered to a list, inspect or prune request
                \* (or, for tagImage, the full tag the caller passed)
    record,     \* what the client built from that answer
    watch,      \* the listeners fs.watchFile holds for the config file, and what they ran
    detector,   \* a ServerReadyDetector, the outputs it was shown and the actions it started
    build,      \* DefaultDockerManager: the cached metadata of the last build, and the last call
    launch      \* DefaultDockerManager: the stored debug-container list and a cleanup in progress

vars == <<env, cache, loads, refreshes, readers, client, nextId, disposals, events, calls,
          engine, record, watch, detector, build, launch>>

----------------------------------------------------------------------------
(* Bounds of the model *)

\* refresh() invocations (explicit, or from the config file watcher); they may overlap
MaxRefresh == 2
\* getContexts() invocations
MaxReaders == 2
\* DockerApiClient operations in flight at a time
MaxCalls == 2
\* seconds a due timer may fire late
MaxLate == 1
\* DockerContextManager.dispose() invocations
MaxDispose == 1
\* outputs shown to a ServerReadyDetector
MaxOutputs == 3
\* buildImage invocations
MaxBuilds == 2
\* prepareForLaunch invocations
MaxLaunch == 2

Refreshers == 1..MaxRefresh
Readers == 1..MaxReaders
Callers == 1..MaxCalls

----------------------------------------------------------------------------
(* Contexts and the host environment *)

\* DockerContext: Name, DockerEndpoint, Current (Description plays no part)
Ctx(name, endpoint, current) == [Name |-> name, DockerEndpoint |-> endpoint, Current |-> current]

\* `contexts.find(c => c.Current)` found nothing
NoContext == Ctx("", "", FALSE)

\* the endpoint that selects the DockerServe client
AciEndpoint == "aci"

\* one line of `docker context ls --format="{{json .}}"`: JSON text of a context, or malformed
Line(ctx) == [ok |-> TRUE, ctx |-> ctx]
BadLine == [ok |-> FALSE, ctx |-> NoContext]

\* a resolved value of type DockerContext[] | undefined
List(items) == [kind |-> "list", items |-> items]
Undefined == [kind |-> "undefined", items |-> <<>>]

\* an outcome of a computation that may throw
Returned(v) == [threw |-> FALSE, value |-> v]
Threw == [threw |-> TRUE, value |-> Undefined]

defaultContext(endpoint) == Ctx("default", endpoint, TRUE)

\* workspace.getConfiguration('docker').get('host') and process.env.DOCKER_HOST
Settings(setting, envHost) == [host |-> setting, DOCKER_HOST |-> envHost]

\* what loadContexts finds outside the program: ~/.docker/contexts/meta and the
\* outcome of `docker context ls`
Store(folder, entries, fails, stdout) ==
    [folderExists |-> folder, folderEntries |-> entries, execFails |-> fails, stdout |-> stdout]

\* CLI outputs the model draws from
StdoutLocal == <<Line(Ctx("default", "npipe", TRUE)), Line(Ctx("myaci", AciEndpoint, FALSE))>>
StdoutAci == <<Line(Ctx("default", "npipe", FALSE)), Line(Ctx("myaci", AciEndpoint, TRUE))>>
StdoutNoCurrent == <<Line(Ctx("default", "npipe", FALSE)), Line(Ctx("myaci", AciEndpoint, FALSE))>>
StdoutTwoCurrent == <<Line(Ctx("default", "npipe", TRUE)), Line(Ctx("myaci", AciEndpoint, TRUE))>>
StdoutMalformed == <<Line(Ctx("default", "npipe", TRUE)), BadLine>>

\* the stores the context-switching specification draws from
SwitchStores ==
    { Store(TRUE, 2, FALSE, s) :
        s \in {StdoutLocal, StdoutAci, StdoutNoCurrent, StdoutTwoCurrent, StdoutMalformed} }

----------------------------------------------------------------------------
(* loadContexts *)

\* a head that consults DOCKER_HOST before the docker.host setting
dockerHostOfEnvFirst(e) == IF e.DOCKER_HOST # "" THEN e.DOCKER_HOST ELSE e.host

\* the synchronous head of loadContexts: the docker.host setting, else DOCKER_HOST
dockerHostOf(e) == IF e.host # "" THEN e.host ELSE e.DOCKER_HOST

RECURSIVE parseLines(_)
\* `for (const line of lines) result.push(JSON.parse(line))`: throws at the first malformed line
parseLines(lines) ==
    IF lines = <<>> THEN Returned(List(<<>>))
    ELSE IF ~ Head(lines).ok THEN Threw
    ELSE LET rest == parseLines(Tail(lines))
         IN  IF rest.threw THEN Threw
             ELSE Returned(List(<<Head(lines).ctx>> \o rest.value.items))

\* the callback handed to callWithTelemetryAndErrorHandling; dockerHost was read when
\* loadContexts was called, the folder and the CLI output are read as it completes
\* a chain that also takes a store of one context for "nothing to enumerate"
hostAfterChecksUpToOne(dockerHost, h) ==
    IF dockerHost # "" THEN dockerHost
    ELSE IF ~ h.folderExists \/ h.folderEntries <= 1 THEN "TODO"
    ELSE ""

\* the if / else if chain of the callback: the value dockerHost has after it
hostAfterChecks(dockerHost, h) ==
    IF dockerHost # "" THEN dockerHost
    ELSE IF ~ h.folderExists \/ h.folderEntries = 0 THEN "TODO"
    ELSE ""

\* the callback reaches execAsync('docker context ls ...')
execsContextLs(dockerHost, h) == hostAfterChecks(dockerHost, h) = ""

loadContextsBody(dockerHost, h) ==
    IF ~ execsContextLs(dockerHost, h)
    THEN Returned(List(<<defaultContext(hostAfterChecks(dockerHost, h))>>))
    ELSE IF h.execFails THEN Threw
    ELSE parseLines(h.stdout)

\* an error handler that answers a failed callback with the default context
callWithTelemetryDefaulting(outcome) ==
    IF outcome.threw THEN Returned(List(<<defaultContext("TODO")>>)) ELSE outcome

\* callWithTelemetryAndErrorHandling (vscode-azureextensionui): the callback never sets
\* errorHandling.rethrow, so an error it throws is handled and the promise resolves
\* with undefined
callWithTelemetryAndErrorHandling(outcome) ==
    IF outcome.threw THEN Returned(Undefined) ELSE outcome

loadContexts(dockerHost, h) == callWithTelemetryAndErrorHandling(loadContextsBody(dockerHost, h))

----------------------------------------------------------------------------
(* helpers on sequences *)

RECURSIVE findCurrent(_)
\* contexts.find(c => c.Current): the first current entry, or NoContext
findCurrent(items) ==
    IF items = <<>> THEN NoContext
    ELSE IF Head(items).Current THEN Head(items)
    ELSE findCurrent(Tail(items))

CurrentCount(items) == Cardinality({i \in DOMAIN items : items[i].Current})

CountBy(seq, r) == Cardinality({i \in DOMAIN seq : seq[i].by = r})

----------------------------------------------------------------------------
(* AsyncLazy (utils/lazy): the memoized context list *)

EmptyLazy == [isValueCreated |-> FALSE, value |-> Undefined, valuePromise |-> 0]

\* AsyncLazy.clear()
lazyClear(c) == EmptyLazy

\* AsyncLazy.getValue() up to its await: a memoized value is returned as it is; the
\* first caller without one is "primary" and starts the factory; later callers await
\* the promise the primary created. `id` is the promise a factory call would create.
getValueStart(c, id) ==
    IF c.isValueCreated
    THEN [cache |-> c, hit |-> TRUE, primary |-> FALSE, starts |-> FALSE, promise |-> 0,
          value |-> c.value]
    ELSE IF c.valuePromise = 0
    THEN [cache |-> [c EXCEPT !.valuePromise = id], hit |-> FALSE, primary |-> TRUE,
          starts |-> TRUE, promise |-> id, value |-> Undefined]
    ELSE [cache |-> c, hit |-> FALSE, primary |-> FALSE, starts |-> FALSE,
          promise |-> c.valuePromise, value |-> Undefined]

\* AsyncLazy.getValue() after its await: the primary caller memoizes the result
getValueEnd(c, primary, result) ==
    IF primary THEN [isValueCreated |-> TRUE, value |-> result, valuePromise |-> 0] ELSE c

\* the promise a call of loadContexts() returns; the docker.host setting and
\* DOCKER_HOST are read before its first await
NewLoad(e) ==
    [st |-> "pending", dockerHost |-> dockerHostOf(e), result |-> Undefined,
     rejected |-> FALSE, found |-> Store(FALSE, 0, FALSE, <<>>), exec |-> FALSE]

----------------------------------------------------------------------------
(* The installed backend *)

Backend(id, family) == [id |-> id, family |-> family]

\* the family refresh() wants installed for the current context
familyFor(ctx) == IF ctx.DockerEndpoint = AciEndpoint THEN "remote" ELSE "local"

\* a refresh() without its else branch: it never goes back to the Dockerode client
needsSwitchAciOnly(cl, ctx) == ctx.DockerEndpoint = AciEndpoint /\ cl.family = "local"

\* a refresh() that installs a new client whatever is installed
needsSwitchAlways(cl, ctx) == TRUE

\* the two instanceof tests of refresh(): the installed backend is of the other family
needsSwitch(cl, ctx) ==
    IF ctx.DockerEndpoint = AciEndpoint THEN cl.family = "local" ELSE cl.family = "remote"

\* ext.dockerClient.dispose()
dispose(ds, cl) == Append(ds, cl.id)

\* a refresh() that fires the event twice
fireTwice(evs, r, ctx) == evs \o <<[by |-> r, ctx |-> ctx], [by |-> r, ctx |-> ctx]>>

\* a fire put off to a later turn of the event loop: nothing is delivered in this one
fireLater(evs, r, ctx) == evs

\* this.emitter.fire(currentContext), delivered synchronously to the subscribers
fire(evs, r, ctx) == Append(evs, [by |-> r, ctx |-> ctx])

Disposed == {disposals[i] : i \in DOMAIN disposals}

----------------------------------------------------------------------------
(* fs.watchFile and fs.unwatchFile on the config file *)

\* the two arrow functions `async () => this.refresh()`: the one the constructor creates
\* and the one dispose() creates are different function objects
ConstructorListener == "constructor"
DisposeListener == "dispose"

\* fs.watchFile(dockerConfigFile, listener)
watchFile(listeners, l) == listeners \cup {l}

\* fs.unwatchFile(dockerConfigFile, listener): only that listener is removed
unwatchFile(listeners, l) == listeners \ {l}

\* the watcher after the constructor; `ran` lists the refresh() calls the listeners made,
\* each with whether dispose() had been called by then
Watching == [listeners |-> watchFile({}, ConstructorListener), ran |-> <<>>]

----------------------------------------------------------------------------
(* refresh() *)

IdleRefresh ==
    [pc |-> "idle", promise |-> 0, primary |-> FALSE, prev |-> Undefined, got |-> Undefined,
     ctx |-> NoContext, swapped |-> FALSE, old |-> 0, new |-> 0]

\* refresh() invocations so far
Started == Cardinality({r \in Refreshers : refreshes[r].pc # "idle"})

RefreshBusy == \E r \in Refreshers : refreshes[r].pc = "awaiting"

\* the first two statements of refresh(): this.contextsCache.clear(), then
\* this.contextsCache.getValue() up to its await
refreshGetValue(c, id) == getValueStart(lazyClear(c), id)

\* refresh() from its call to its await
refreshToAwait(r) ==
    /\ r = Started + 1
    /\ LET gv == refreshGetValue(cache, Len(loads) + 1)
       IN  /\ cache' = gv.cache
           /\ loads' = IF gv.starts THEN Append(loads, NewLoad(env)) ELSE loads
           /\ refreshes' = [refreshes EXCEPT ![r] =
                  [IdleRefresh EXCEPT !.pc = "awaiting", !.promise = gv.promise,
                                      !.primary = gv.primary, !.got = gv.value,
                                      !.prev = IF cache.isValueCreated THEN cache.value
                                               ELSE Undefined]]
    /\ UNCHANGED <<build, launch, detector, engine, record, env, readers, client, nextId, disposals, events, calls>>

\* refresh() called by a consumer (or by the watcher, where the watcher is not modelled)
RefreshStart(r) ==
    /\ refreshToAwait(r)
    /\ UNCHANGED <<watch>>

\* a loadContexts() promise settles; h is the store it found
LoadSettle(l, h) ==
    /\ l \in DOMAIN loads
    /\ loads[l].st = "pending"
    /\ LET outcome == loadContexts(loads[l].dockerHost, h)
       IN  loads' = [loads EXCEPT ![l] =
               [@ EXCEPT !.st = "settled", !.result = outcome.value,
                         !.rejected = outcome.threw, !.found = h,
                         !.exec = execsContextLs(loads[l].dockerHost, h)]]
    /\ UNCHANGED <<build, launch, detector, watch, engine, record, env, cache, refreshes, readers, client, nextId, disposals, events, calls>>

Settled(promise) == promise = 0 \/ loads[promise].st = "settled"

\* refresh() from its await to its end: find the current context, switch the backend
\* if its family is the wrong one, fire the event. Reading .find of undefined, or
\* .DockerEndpoint of an undefined current context, throws: refresh() rejects there.
RefreshResume(r) ==
    /\ refreshes[r].pc = "awaiting"
    /\ Settled(refreshes[r].promise)
    /\ LET me == refreshes[r]
           contexts == IF me.promise = 0 THEN me.got ELSE loads[me.promise].result
           currentContext == findCurrent(contexts.items)
           rejected == me.promise # 0 /\ loads[me.promise].rejected
           throws == rejected \/ contexts.kind = "undefined" \/ currentContext = NoContext
           switch == ~ throws /\ needsSwitch(client, currentContext)
       IN  /\ cache' = IF rejected THEN cache ELSE getValueEnd(cache, me.primary, contexts)
           /\ client' = IF switch THEN Backend(nextId, familyFor(currentContext)) ELSE client
           /\ nextId' = IF switch THEN nextId + 1 ELSE nextId
           /\ disposals' = IF switch THEN dispose(disposals, client) ELSE disposals
           /\ events' = IF throws THEN events ELSE fire(events, r, currentContext)
           /\ refreshes' = [refreshes EXCEPT ![r] =
                  [@ EXCEPT !.pc = IF throws THEN "failed" ELSE "done",
                            !.got = contexts, !.ctx = currentContext, !.swapped = switch,
                            !.old = client.id, !.new = client'.id]]
    /\ UNCHANGED <<build, launch, detector, watch, engine, record, env, loads, readers, calls>>

----------------------------------------------------------------------------
(* getContexts() *)

IdleReader ==
    [pc |-> "idle", promise |-> 0, primary |-> FALSE, result |-> Undefined,
     startedLoad |-> FALSE, quiet |-> FALSE, afterPrev |-> FALSE, afterFailed |-> FALSE,
     clears0 |-> 0, clears1 |-> 0]

ReaderBusy == \E g \in Readers : readers[g].pc = "awaiting"

\* a getContexts() that calls loadContexts() itself instead of asking the cache
getContextsUncached(c, id) ==
    [cache |-> c, hit |-> FALSE, primary |-> FALSE, starts |-> TRUE, promise |-> id,
     value |-> Undefined]

\* the body of getContexts(): return this.contextsCache.getValue()
getContexts(c, id) == getValueStart(c, id)

\* getContexts() from its call to its await (or to its end, on a memoized value)
GetContextsStart(g) ==
    /\ readers[g].pc = "idle"
    /\ \A q \in Readers : q < g => readers[q].pc # "idle"
    /\ LET gv == getContexts(cache, Len(loads) + 1)
       IN  /\ cache' = gv.cache
           /\ loads' = IF gv.starts THEN Append(loads, NewLoad(env)) ELSE loads
           /\ readers' = [readers EXCEPT ![g] =
                  [pc |-> IF gv.hit THEN "done" ELSE "awaiting",
                   promise |-> gv.promise, primary |-> gv.primary, result |-> gv.value,
                   startedLoad |-> gv.starts,
                   quiet |-> ~ RefreshBusy /\ ~ ReaderBusy,
                   afterPrev |-> g > 1 /\ readers[g - 1].pc = "done",
                   afterFailed |-> Started > 0 /\ refreshes[Started].pc = "failed"
                                   /\ refreshes[Started].got.kind = "undefined",
                   clears0 |-> Started, clears1 |-> Started]]
    /\ UNCHANGED <<build, launch, detector, watch, engine, record, env, refreshes, client, nextId, disposals, events, calls>>

\* getContexts() from its await to its end
GetContextsResume(g) ==
    /\ readers[g].pc = "awaiting"
    /\ Settled(readers[g].promise)
    /\ LET result == loads[readers[g].promise].result
           rejected == loads[readers[g].promise].rejected
       IN  /\ cache' = IF rejected THEN cache
                       ELSE getValueEnd(cache, readers[g].primary, result)
           /\ readers' = [readers EXCEPT ![g] =
                  [@ EXCEPT !.pc = IF rejected THEN "failed" ELSE "done",
                            !.result = result, !.clears1 = Started]]
    /\ UNCHANGED <<build, launch, detector, watch, engine, record, env, loads, refreshes, client, nextId, disposals, events, calls>>

----------------------------------------------------------------------------
(* DockerContextManager.dispose() *)

\* dispose() calls so far: the disposals that no swap of a refresh() made
ManagerDisposals ==
    Len(disposals) - Cardinality({r \in Refreshers : refreshes[r].swapped})

\* DockerContextManager.dispose(): fs.unwatchFile is handed a new arrow function, which is
\* not the listener the constructor registered, so no listener is removed and the watcher
\* keeps calling refresh(); then the installed backend is disposed, and stays installed
ManagerDispose ==
    /\ ManagerDisposals < MaxDispose
    /\ watch' = [watch EXCEPT !.listeners = unwatchFile(@, DisposeListener)]
    /\ disposals' = dispose(disposals, client)
    /\ UNCHANGED <<build, launch, detector, engine, record, env, cache, loads, refreshes, readers, client, nextId, events, calls>>

\* the config file changes: fs calls the listeners it holds; the constructor's listener
\* runs refresh() to its await
ConfigFileChange(r) ==
    /\ ConstructorListener \in watch.listeners
    /\ refreshToAwait(r)
    /\ watch' = [watch EXCEPT !.ran = Append(@, [r |-> r, disposed |-> ManagerDisposals > 0])]

----------------------------------------------------------------------------
(* The DockerApiClient surface and its two implementations *)

\* the operations of interface DockerApiClient
Surface ==
    {"info",
     "getContainers", "inspectContainer", "getContainerLogs", "pruneContainers",
     "startContainer", "restartContainer", "stopContainer", "removeContainer",
     "getImages", "inspectImage", "pruneImages", "tagImage", "removeImage",
     "getNetworks", "inspectNetwork", "pruneNetworks", "createNetwork", "removeNetwork",
     "getVolumes", "inspectVolume", "pruneVolumes", "createVolume", "removeVolume",
     "getContexts"}

\* the methods class DockerServeClient defines
ServeMethods == Surface \ {"createVolume", "getContexts"}

\* the methods of DockerServeClient that go through promisify to the containers client
ServeImplemented == {"getContainers", "stopContainer", "removeContainer"}

\* the methods class DockerodeApiClient defines
DockerodeMethods == Surface \ {"createVolume"}

\* the methods of DockerodeApiClient that hand their token to callWithErrorHandling
\* (getContainerLogs does not)
DockerodePassesToken == DockerodeMethods \ {"getContainerLogs", "getContexts"}

\* removeImage with a ref that ends with ':<none>': the image is inspected first (a
\* first callWithErrorHandling, without the token) and removed by its digest second
removeImageNoneTag == "removeImage:<none>"

\* the method an invocation names
methodOf(op) == IF op = removeImageNoneTag THEN "removeImage" ELSE op

\* DockerodeApiClient.contextChangingPromise: declared, never assigned
contextChangingPromise == 0

\* timeouts, in seconds
dockerodeCallTimeout == 20
dockerServeCallTimeout == 20

\* errors; a message is a sequence of its parts
Err(type, msg) == [errorType |-> type, message |-> msg]
NoError == Err("", <<>>)
NotSupportedError == Err("NotSupportedError",
                         <<"This action is not supported in the current Docker context.">>)
UserCancelledError == Err("UserCancelledError", <<"Operation cancelled.">>)
TimeoutError == Err("Error", <<"Request timed out.">>)
\* calling a method the object does not have
TypeError(op) == Err("TypeError", <<op, "is not a function">>)
\* what the engine or its transport may fail with
NativeErrors ==
    {Err("ENOENT", <<"connect ENOENT /var/run/docker.sock">>),
     Err("ECONNREFUSED", <<"connect ECONNREFUSED 127.0.0.1:2375">>),
     Err("404", <<"no such container">>)}

\* how a call ended
Pending == [kind |-> "pending", error |-> NoError]
Resolved == [kind |-> "resolved", error |-> NoError]
Rejected(err) == [kind |-> "rejected", error |-> err]
\* the call expression itself threw: no promise was returned
ThrewAtCall(err) == [kind |-> "threw", error |-> err]

IdleCall ==
    [st |-> "idle", op |-> "", backend |-> 0, family |-> "", token |-> FALSE, hung |-> FALSE,
     timer |-> FALSE, listener |-> FALSE, deadline |-> 0, age |-> 0, contacted |-> 0,
     suppress |-> FALSE, outcome |-> Pending, begun |-> 0,
     supplied |-> FALSE, fired |-> FALSE, step |-> 0, raw |-> NoError]

\* an async method that throws before anything is dispatched: its promise rejects
failAtOnce(call, err) == [call EXCEPT !.st = "settled", !.outcome = Rejected(err)]

\* a method the installed object does not have
noSuchMethod(call, op) == [call EXCEPT !.st = "settled", !.outcome = ThrewAtCall(TypeError(op))]

\* callWithErrorHandling up to Promise.race: the timeout source and its listener are
\* created, contextChangingPromise is awaited if set, and callback() dispatches the
\* request to the engine. The race also holds contextChangedCps.promise, which nothing
\* ever settles ("TODO: fire this on context change").
raceStart(call, timeout) ==
    [call EXCEPT !.st = IF contextChangingPromise # 0 THEN "waiting" ELSE "inflight",
                 !.timer = TRUE, !.listener = TRUE, !.deadline = timeout,
                 !.contacted = IF contextChangingPromise # 0 THEN @ ELSE @ + 1]

\* the method `op` of the installed DockerodeApiClient
dockerodeCall(call, op) ==
    IF methodOf(op) \notin DockerodeMethods THEN noSuchMethod(call, op)
    ELSE IF op = "getContexts" THEN failAtOnce(call, NotSupportedError)
    ELSE IF op = removeImageNoneTag
    THEN raceStart([call EXCEPT !.token = FALSE, !.step = 1], dockerodeCallTimeout)
    ELSE raceStart([call EXCEPT !.token = @ /\ op \in DockerodePassesToken],
                   dockerodeCallTimeout)

\* the method `op` of the installed DockerServeClient
dockerServeCall(call, op) ==
    IF methodOf(op) \notin ServeMethods THEN noSuchMethod(call, op)
    ELSE IF op \in ServeImplemented THEN raceStart(call, dockerServeCallTimeout)
    ELSE failAtOnce(call, NotSupportedError)

\* a finally block that forgets tps.dispose()
finallyLeak(call) == [call EXCEPT !.listener = FALSE]

\* the two dispose() calls placed after the race inside the try block instead of in a
\* finally block: a rejected race skips them
finallySkippedOnThrow(call) ==
    IF call.outcome.kind = "rejected" THEN call
    ELSE [call EXCEPT !.timer = FALSE, !.listener = FALSE]

\* the finally block of callWithErrorHandling: evt.dispose(); tps.dispose()
finallyDispose(call) == [call EXCEPT !.timer = FALSE, !.listener = FALSE]

\* new Error(localize(..., 'Failed to connect. Is Docker installed and running?
\* Error: {0}', error.message))
failedToConnect(err) ==
    Err("Error", <<"Failed to connect. Is Docker installed and running? Error: ">> \o err.message)

\* a catch block that sends the request again after a native error, once
catchRaceRetrying(call, err) ==
    IF err \in NativeErrors /\ call.contacted < 2
    THEN [call EXCEPT !.st = "inflight", !.contacted = @ + 1]
    ELSE [call EXCEPT !.suppress = TRUE, !.raw = err,
                      !.outcome = Rejected(IF err.errorType = "ENOENT" THEN failedToConnect(err)
                                           ELSE err)]

\* a catch block that translates and rethrows without touching the action context
catchRaceUnmarked(call, err) ==
    [call EXCEPT !.raw = err,
                 !.outcome = Rejected(IF err.errorType = "ENOENT" THEN failedToConnect(err)
                                      ELSE err)]

\* the catch block of callWithErrorHandling: suppressReportIssue is set, an ENOENT
\* error becomes the "Failed to connect" error, any other error is rethrown; `raw` is
\* the error that was caught
catchRace(call, err) ==
    [call EXCEPT !.suppress = TRUE, !.raw = err,
                 !.outcome = Rejected(IF err.errorType = "ENOENT" THEN failedToConnect(err)
                                      ELSE err)]

\* an operation that, refused by the DockerServe client, installs a Dockerode client itself
CallIssueFallingBack(c, op, tok, hung) ==
    /\ calls[c].st # "inflight"
    /\ LET call == [IdleCall EXCEPT !.op = op, !.backend = client.id, !.family = client.family,
                                    !.token = tok, !.supplied = tok, !.hung = hung,
                                    !.begun = Started]
           refused == client.family = "remote" /\ op \notin ServeImplemented
       IN  /\ calls' = [calls EXCEPT ![c] = IF client.family = "local"
                                            THEN dockerodeCall(call, op)
                                            ELSE dockerServeCall(call, op)]
           /\ client' = IF refused THEN Backend(nextId, "local") ELSE client
           /\ nextId' = IF refused THEN nextId + 1 ELSE nextId
    /\ UNCHANGED <<build, launch, detector, watch, engine, record, env, cache, loads, refreshes, readers, disposals, events>>

\* a consumer invokes ext.dockerClient.<op>(context, ..., token): the backend installed
\* at that moment serves it. tok: a token is supplied; hung: the transport will never settle.
\* `token` is the token the running callWithErrorHandling was handed, `supplied` the
\* caller's.
CallIssue(c, op, tok, hung) ==
    /\ calls[c].st # "inflight"
    /\ LET call == [IdleCall EXCEPT !.op = op, !.backend = client.id, !.family = client.family,
                                    !.token = tok, !.supplied = tok, !.hung = hung,
                                    !.begun = Started]
       IN  calls' = [calls EXCEPT ![c] = IF client.family = "local"
                                         THEN dockerodeCall(call, op)
                                         ELSE dockerServeCall(call, op)]
    /\ UNCHANGED <<build, launch, detector, watch, engine, record, env, cache, loads, refreshes, readers, client, nextId, disposals, events>>

\* the second callWithErrorHandling of removeImage, after the first returned: its
\* timeout source is new and it is handed the caller's token
secondRace(call) ==
    raceStart([finallyDispose(call) EXCEPT !.step = 2, !.token = call.supplied, !.age = 0],
              dockerodeCallTimeout)

\* the dispatched request succeeds
TransportResolve(c) ==
    /\ calls[c].st = "inflight"
    /\ ~ calls[c].hung
    /\ calls' = [calls EXCEPT ![c] =
           IF calls[c].step = 1 THEN secondRace(calls[c])
           ELSE finallyDispose([@ EXCEPT !.st = "settled", !.outcome = Resolved])]
    /\ UNCHANGED <<build, launch, detector, watch, engine, record, env, cache, loads, refreshes, readers, client, nextId, disposals, events>>

\* the dispatched request fails with err
TransportReject(c, err) ==
    /\ calls[c].st = "inflight"
    /\ ~ calls[c].hung
    /\ calls' = [calls EXCEPT ![c] =
           finallyDispose(catchRace([@ EXCEPT !.st = "settled"], err))]
    /\ UNCHANGED <<build, launch, detector, watch, engine, record, env, cache, loads, refreshes, readers, client, nextId, disposals, events>>

\* the caller's cancellation token fires (or had fired before the running race was
\* entered, and its listener is called back): the cancel promise rejects if the token
\* is in the race, and nothing happens if it is not
CancelToken(c) ==
    /\ calls[c].st = "inflight"
    /\ calls[c].supplied
    /\ ~ calls[c].fired \/ calls[c].token
    /\ calls' = [calls EXCEPT ![c] =
           IF calls[c].token
           THEN finallyDispose(catchRace([@ EXCEPT !.st = "settled", !.fired = TRUE],
                                         UserCancelledError))
           ELSE [@ EXCEPT !.fired = TRUE]]
    /\ UNCHANGED <<build, launch, detector, watch, engine, record, env, cache, loads, refreshes, readers, client, nextId, disposals, events>>

\* the timer of a call's timeout source is due
timerDue(call) == call.timer /\ call.age >= call.deadline

\* a timeout whose rejection reaches the caller past the listener and the catch block
TimerFireUnmarked(c) ==
    /\ calls[c].st = "inflight"
    /\ timerDue(calls[c])
    /\ calls' = [calls EXCEPT ![c] =
           finallyDispose([@ EXCEPT !.st = "settled", !.raw = TimeoutError,
                                    !.outcome = Rejected(TimeoutError)])]
    /\ UNCHANGED <<build, launch, detector, watch, engine, record, env, cache, loads, refreshes, readers, client, nextId, disposals, events>>

\* the timer fires: the onTimeout listener sets suppressReportIssue, the timeout
\* promise rejects and wins the race
TimerFire(c) ==
    /\ calls[c].st = "inflight"
    /\ timerDue(calls[c])
    /\ calls' = [calls EXCEPT ![c] =
           finallyDispose(catchRace([@ EXCEPT !.st = "settled",
                                              !.suppress = @ \/ calls[c].listener],
                                    TimeoutError))]
    /\ UNCHANGED <<build, launch, detector, watch, engine, record, env, cache, loads, refreshes, readers, client, nextId, disposals, events>>

\* one second passes; a due timer fires at most MaxLate seconds late
Tick ==
    /\ \E c \in Callers : calls[c].st = "inflight"
    /\ \A c \in Callers : calls[c].st = "inflight" => calls[c].age < calls[c].deadline + MaxLate
    /\ calls' = [c \in Callers |->
           IF calls[c].st = "inflight" THEN [calls[c] EXCEPT !.age = @ + 1] ELSE calls[c]]
    /\ UNCHANGED <<build, launch, detector, watch, engine, record, env, cache, loads, refreshes, readers, client, nextId, disposals, events>>

----------------------------------------------------------------------------
(* The records the Dockerode client builds from the engine's answers.      *)
(* A string whose characters matter (a container alias, an image digest)   *)
(* is a sequence of one-character strings.                                  *)

NoAnswer == [kind |-> "none"]

\* Array.prototype.find: given the positions that satisfy the test, the first of them holds the
\* element found; with no such position the result is undefined
NotFound == [found |-> FALSE]
find(list, hits) ==
    IF hits = {} THEN NotFound
    ELSE [found |-> TRUE, value |-> list[CHOOSE i \in hits : \A j \in hits : i <= j]]

\* String.prototype.indexOf: the zero-based position of the first occurrence, -1 if none
RECURSIVE indexFrom(_, _, _)
indexFrom(str, ch, i) ==
    IF i > Len(str) THEN -1
    ELSE IF str[i] = ch THEN i - 1
    ELSE indexFrom(str, ch, i + 1)

indexOf(str, ch) == indexFrom(str, ch, 1)

\* String.prototype.substr(1) and String.prototype.substring(0, index)
substr(str) == IF str = <<>> THEN <<>> ELSE Tail(str)
substring(str, index) == SubSeq(str, 1, index)

\* a creation time as the engine reports it: a number of seconds since the epoch
\* (ContainerInfo.Created, ImageInfo.Created) or an ISO-8601 string (NetworkInspectInfo.Created,
\* VolumeInspectInfo.CreatedAt), here the instant the string denotes
EpochSeconds(s) == [fmt |-> "seconds", secs |-> s]
IsoString(s, ms) == [fmt |-> "iso", secs |-> s, millis |-> ms]

\* a JavaScript number
Number(n) == [fmt |-> "number", n |-> n]
NaN == [fmt |-> "NaN"]

\* `created * 1000`
timesThousand(created) ==
    IF created.fmt = "seconds" THEN Number(created.secs * 1000) ELSE NaN

\* `new Date(created).valueOf()`: a string is parsed, a number is taken as milliseconds
valueOf(created) ==
    IF created.fmt = "iso" THEN Number(created.secs * 1000 + created.millis)
    ELSE IF created.fmt = "seconds" THEN Number(created.secs)
    ELSE NaN

NonComposeGroupName == "Other Containers"

\* the fallback taken with `||`, which also skips an empty canonical name
getContainerNameOr(containerInfo) ==
    LET names == [i \in 1..Len(containerInfo.Names) |-> substr(containerInfo.Names[i])]
        canonicalName == find(names, {i \in 1..Len(names) : indexOf(names[i], "/") = -1})
    IN  IF canonicalName.found /\ canonicalName.value # <<>> THEN canonicalName.value
        ELSE names[1]

getContainerName(containerInfo) ==
    LET names == [i \in 1..Len(containerInfo.Names) |-> substr(containerInfo.Names[i])]
        canonicalName == find(names, {i \in 1..Len(names) : indexOf(names[i], "/") = -1})
    IN  IF canonicalName.found THEN canonicalName.value ELSE names[1]

\* the test `if (composeProject.value)`, which sends an empty project name to the sentinel
getComposeProjectNameTruthy(containerInfo) ==
    LET labels == containerInfo.Labels
        composeProject ==
            find(labels, {i \in 1..Len(labels) : labels[i].label = "com.docker.compose.project"})
    IN  IF composeProject.found /\ composeProject.value.value # ""
        THEN composeProject.value.value
        ELSE NonComposeGroupName

\* containerInfo.Labels is the object's entries in key order: Object.keys(Labels).map(...)
getComposeProjectName(containerInfo) ==
    LET labels == containerInfo.Labels
        composeProject ==
            find(labels, {i \in 1..Len(labels) : labels[i].label = "com.docker.compose.project"})
    IN  IF composeProject.found THEN composeProject.value.value ELSE NonComposeGroupName

\* `${repo}:${tag}`
fullTag(repo, tag) == repo \o <<":">> \o tag

getFullTagFromDigest(image) ==
    LET none == <<"<none>">>
        digest == IF Len(image.RepoDigests) >= 1 THEN image.RepoDigests[1] ELSE <<>>
        index == indexOf(digest, "@")
        repo == IF digest # <<>> /\ index > 0 THEN substring(digest, index) ELSE none
    IN  fullTag(repo, none)

\* DockerodeApiClient.getContainers, after the engine answered
getContainersRecord(ci) ==
    [Names |-> ci.Names, Labels |-> ci.Labels, Created |-> ci.Created,
     composeProjectName |-> getComposeProjectName(ci),
     Name |-> getContainerName(ci),
     CreatedTime |-> timesThousand(ci.Created)]

GetContainers ==
    /\ engine.kind = "containers"
    /\ record = NoAnswer
    /\ record' = [kind |-> "containers",
                  list |-> [i \in 1..Len(engine.result) |-> getContainersRecord(engine.result[i])]]
    /\ UNCHANGED <<build, launch, detector, watch, engine, env, cache, loads, refreshes, readers, client, nextId, disposals, events, calls>>

\* image.RepoTags is List(tags), or Undefined when the engine lists the image without the field
getImagesRecord(image, name) ==
    [Id |-> image.Id, RepoTags |-> image.RepoTags, RepoDigests |-> image.RepoDigests,
     Created |-> image.Created,
     Name |-> name,
     CreatedTime |-> timesThousand(image.Created)]

\* the records one pass of the loop `for (const image of images)` pushes
getImagesPush(image) ==
    IF image.RepoTags = Undefined
    THEN <<getImagesRecord(image, getFullTagFromDigest(image))>>
    ELSE [t \in 1..Len(image.RepoTags.items) |->
            getImagesRecord(image, image.RepoTags.items[t])]

RECURSIVE getImagesLoop(_)
getImagesLoop(images) ==
    IF images = <<>> THEN <<>>
    ELSE getImagesPush(Head(images)) \o getImagesLoop(Tail(images))

\* DockerodeApiClient.getImages, after the engine answered
GetImages ==
    /\ engine.kind = "images"
    /\ record = NoAnswer
    /\ record' = [kind |-> "images", list |-> getImagesLoop(engine.result)]
    /\ UNCHANGED <<build, launch, detector, watch, engine, env, cache, loads, refreshes, readers, client, nextId, disposals, events, calls>>

getNetworksRecord(ni) ==
    [Id |-> ni.Id, Created |-> ni.Created, CreatedTime |-> valueOf(ni.Created)]

\* DockerodeApiClient.getNetworks, after the engine answered
GetNetworks ==
    /\ engine.kind = "networks"
    /\ record = NoAnswer
    /\ record' = [kind |-> "networks", list |-> [i \in 1..Len(engine.result) |-> getNetworksRecord(engine.result[i])]]
    /\ UNCHANGED <<build, launch, detector, watch, engine, env, cache, loads, refreshes, readers, client, nextId, disposals, events, calls>>

\* class DockerodeNetwork: the object over a listed network, with its createdTime getter read
DockerodeNetwork(networkInfo) ==
    [networkInfo |-> networkInfo, createdTime |-> networkInfo.Created]

NewDockerodeNetwork ==
    /\ engine.kind = "networks"
    /\ record = NoAnswer
    /\ record' = [kind |-> "networks", list |-> [i \in 1..Len(engine.result) |-> DockerodeNetwork(engine.result[i])]]
    /\ UNCHANGED <<build, launch, detector, watch, engine, env, cache, loads, refreshes, readers, client, nextId, disposals, events, calls>>

getVolumesRecord(vi) ==
    [Name |-> vi.Name, CreatedAt |-> vi.CreatedAt, CreatedTime |-> valueOf(vi.CreatedAt)]

\* DockerodeApiClient.getVolumes, after the engine answered
GetVolumes ==
    /\ engine.kind = "volumes"
    /\ record = NoAnswer
    /\ record' = [kind |-> "volumes", list |-> [i \in 1..Len(engine.result.Volumes) |-> getVolumesRecord(engine.result.Volumes[i])]]
    /\ UNCHANGED <<build, launch, detector, watch, engine, env, cache, loads, refreshes, readers, client, nextId, disposals, events, calls>>

\* DockerodeApiClient.pruneContainers, after the engine answered
pruneContainers(result) ==
    [ContainersDeleted |-> result.ContainersDeleted, SpaceReclaimed |-> result.SpaceReclaimed,
     ObjectsDeleted |-> Len(result.ContainersDeleted)]

pruneImages(result) ==
    [ImagesDeleted |-> result.ImagesDeleted, SpaceReclaimed |-> result.SpaceReclaimed,
     ObjectsDeleted |-> Len(result.ImagesDeleted)]

\* the space taken from the count of the networks deleted
pruneNetworksCounted(result) ==
    [SpaceReclaimed |-> Len(result.NetworksDeleted), ObjectsDeleted |-> Len(result.NetworksDeleted)]

pruneNetworks(result) ==
    [SpaceReclaimed |-> 0, ObjectsDeleted |-> Len(result.NetworksDeleted)]

pruneVolumes(result) ==
    [VolumesDeleted |-> result.VolumesDeleted, SpaceReclaimed |-> result.SpaceReclaimed,
     ObjectsDeleted |-> Len(result.VolumesDeleted)]

PruneContainers ==
    /\ engine.kind = "pruneContainers"
    /\ record = NoAnswer
    /\ record' = [kind |-> "pruneContainers", result |-> pruneContainers(engine.result)]
    /\ UNCHANGED <<build, launch, detector, watch, engine, env, cache, loads, refreshes, readers, client, nextId, disposals, events, calls>>

PruneImages ==
    /\ engine.kind = "pruneImages"
    /\ record = NoAnswer
    /\ record' = [kind |-> "pruneImages", result |-> pruneImages(engine.result)]
    /\ UNCHANGED <<build, launch, detector, watch, engine, env, cache, loads, refreshes, readers, client, nextId, disposals, events, calls>>

PruneNetworks ==
    /\ engine.kind = "pruneNetworks"
    /\ record = NoAnswer
    /\ record' = [kind |-> "pruneNetworks", result |-> pruneNetworks(engine.result)]
    /\ UNCHANGED <<build, launch, detector, watch, engine, env, cache, loads, refreshes, readers, client, nextId, disposals, events, calls>>

PruneVolumes ==
    /\ engine.kind = "pruneVolumes"
    /\ record = NoAnswer
    /\ record' = [kind |-> "pruneVolumes", result |-> pruneVolumes(engine.result)]
    /\ UNCHANGED <<build, launch, detector, watch, engine, env, cache, loads, refreshes, readers, client, nextId, disposals, events, calls>>

----------------------------------------------------------------------------
(* tagImage: the full tag is split into the repo and tag options of image.tag *)

RECURSIVE lastIndexFrom(_, _, _)
\* String.prototype.lastIndexOf(ch), searching down from position i (1-based): the
\* 0-based index of the last occurrence, or -1
lastIndexFrom(str, ch, i) ==
    IF i < 1 THEN -1
    ELSE IF str[i] = ch THEN i - 1
    ELSE lastIndexFrom(str, ch, i - 1)

lastIndexOf(str, ch) == lastIndexFrom(str, ch, Len(str))

\* String.prototype.substr(start, length): a negative start counts from the end, a
\* length that is not positive gives the empty string
substrOf(str, start, length) ==
    LET from == IF start < 0
                THEN (IF Len(str) + start < 0 THEN 0 ELSE Len(str) + start)
                ELSE start
        to == IF from + length > Len(str) THEN Len(str) ELSE from + length
    IN  IF length <= 0 \/ from >= Len(str) THEN <<>> ELSE SubSeq(str, from + 1, to)

\* String.prototype.substr(start)
substrFrom(str, start) == substrOf(str, start, Len(str))

\* the options tagImage hands to image.tag
tagImage(tagged) ==
    [repo |-> substrOf(tagged, 0, lastIndexOf(tagged, ":")),
     tag |-> substrFrom(tagged, lastIndexOf(tagged, ":"))]

\* DockerodeApiClient.tagImage(context, ref, fullTag)
TagImage ==
    /\ engine.kind = "tagImage"
    /\ record = NoAnswer
    /\ record' = [kind |-> "tagImage", result |-> tagImage(engine.fullTag)]
    /\ UNCHANGED <<build, launch, detector, watch, engine, env, cache, loads, refreshes, readers, client, nextId, disposals, events, calls>>

----------------------------------------------------------------------------
(* ServerReadyDetector: the server-ready action of a debug session *)

\* configuration.dockerOptions.dockerServerReadyAction: whether containerName is set, and
\* how many '%s' placeholders uriFormat (or URI_FORMAT) has
ReadyAction(containerName, placeholders) ==
    [containerName |-> containerName, placeholders |-> placeholders]

\* one output of the debuggee as regexp.exec sees it: whether the pattern matches, and what
\* its group captured: "" (no group), "port" (digits only), "url" (text with a port) or
\* "text" (text without a port)
Output(matches, capture) == [matches |-> matches, capture |-> capture]

Outputs ==
    {Output(FALSE, ""), Output(TRUE, ""), Output(TRUE, "port"), Output(TRUE, "url"),
     Output(TRUE, "text")}

\* new ServerReadyDetector(session); `outputs` and `actions` list the detectPattern calls
\* made and the openExternalWithString calls started
NewDetector(config) ==
    [config |-> config, hasFired |-> FALSE, outputs |-> <<>>, actions |-> <<>>]

\* a detector nothing is shown to
IdleDetector == NewDetector(ReadyAction(TRUE, 1))

\* openExternalWithString up to its first await or to its end: it throws without a container
\* name, shows an error message and returns when the format and the capture do not fit,
\* opens the format as it is, or awaits the host port of the captured container port
openExternalWithString(config, captureString) ==
    IF ~ config.containerName THEN "threw"
    ELSE IF captureString = ""
    THEN (IF config.placeholders > 0 THEN "message" ELSE "opened")
    ELSE IF captureString = "port"
    THEN (IF config.placeholders # 1 THEN "message" ELSE "awaiting")
    ELSE IF captureString = "text" THEN "message"
    ELSE "awaiting"

\* a detectPattern that does not latch: hasFired is left as it was
detectPatternUnlatched(d, s) ==
    LET seen == [d EXCEPT !.outputs = Append(@, s)]
    IN  IF ~ d.hasFired /\ s.matches
        THEN [seen EXCEPT !.actions =
                 Append(@, [at |-> Len(seen.outputs),
                            st |-> openExternalWithString(d.config, s.capture)])]
        ELSE seen

\* detectPattern(s): the first output that matches starts the action and sets hasFired
detectPattern(d, s) ==
    LET seen == [d EXCEPT !.outputs = Append(@, s)]
    IN  IF ~ d.hasFired /\ s.matches
        THEN [seen EXCEPT !.actions =
                 Append(@, [at |-> Len(seen.outputs),
                            st |-> openExternalWithString(d.config, s.capture)]),
                          !.hasFired = TRUE]
        ELSE seen

\* the debug adapter tracker hands an output to the detector
DetectPattern(s) ==
    /\ Len(detector.outputs) < MaxOutputs
    /\ detector' = detectPattern(detector, s)
    /\ UNCHANGED <<build, launch, watch, engine, record, env, cache, loads, refreshes, readers, client, nextId, disposals, events, calls>>

\* dockerClient.getHostPort settles: without a host port the action throws, with one it
\* opens the URI; 0 stands for no host port
HostPorts == {0, 5000}

HostPortSettle(i, hostPort) ==
    /\ i \in DOMAIN detector.actions
    /\ detector.actions[i].st = "awaiting"
    /\ detector' = [detector EXCEPT !.actions[i].st = IF hostPort = 0 THEN "threw" ELSE "opened"]
    /\ UNCHANGED <<build, launch, watch, engine, record, env, cache, loads, refreshes, readers, client, nextId, disposals, events, calls>>

----------------------------------------------------------------------------
(* DefaultDockerManager.buildImage and the cached metadata of the last build *)

\* the value of a key a dictionary does not have, and of an option that is not given
Missing == "undefined"

DictKeys == {"k"}

\* options.args / options.labels: a dictionary, or undefined
Dict(at) == [defined |-> TRUE, at |-> at]
NoDict == [defined |-> FALSE, at |-> [k \in DictKeys |-> Missing]]
EmptyDict == Dict([k \in DictKeys |-> Missing])

\* Object.keys(dict)
keys(dict) == {k \in DictKeys : dict.at[k] # Missing}

\* DockerManagerBuildImageOptions
BuildOptions(context, dockerfile, tag, target, args, labels) ==
    [context |-> context, dockerfile |-> dockerfile, tag |-> tag, target |-> target,
     args |-> args, labels |-> labels]

\* compareProperty: prop1 === prop2
compareProperty(prop1, prop2) == prop1 = prop2

\* compareDictionary: an undefined dictionary counts as {}; every key of either has the same
\* value in both
compareDictionary(d1, d2) ==
    LET dict1 == IF d1.defined THEN d1 ELSE EmptyDict
        dict2 == IF d2.defined THEN d2 ELSE EmptyDict
    IN  /\ \A k \in keys(dict1) : dict1.at[k] = dict2.at[k]
        /\ \A k \in keys(dict2) : dict1.at[k] = dict2.at[k]

\* a comparison that leaves the build args out
compareBuildImageOptionsNoArgs(options1, options2) ==
    /\ compareProperty(options1.context, options2.context)
    /\ compareProperty(options1.tag, options2.tag)
    /\ compareProperty(options1.target, options2.target)
    /\ compareDictionary(options1.labels, options2.labels)

\* compareBuildImageOptions: context, args, tag, target and labels; options.dockerfile is
\* not compared
compareBuildImageOptions(options1, options2) ==
    /\ compareProperty(options1.context, options2.context)
    /\ compareDictionary(options1.args, options2.args)
    /\ compareProperty(options1.tag, options2.tag)
    /\ compareProperty(options1.target, options2.target)
    /\ compareDictionary(options1.labels, options2.labels)

\* LastImageBuildMetadata as cache.get('build') returns it; imageId 0 is an empty image id
Metadata(dockerfileHash, dockerIgnoreHash, imageId, options) ==
    [stored |-> TRUE, dockerfileHash |-> dockerfileHash, dockerIgnoreHash |-> dockerIgnoreHash,
     imageId |-> imageId, options |-> options]

BaseOptions == BuildOptions("ctx", "Dockerfile", "app:dev", Missing, NoDict, NoDict)

\* cache.get('build') of an app folder that was never built
NoMetadata == [Metadata("", Missing, 0, BaseOptions) EXCEPT !.stored = FALSE]

\* buildImage: `exists` is whether inspectObject finds the cached image, the hashes are
\* those of options.dockerfile and of the .dockerignore file of the context (Missing when
\* there is none), newId is the id a build would return
buildImage(buildMetadata, options, exists, dockerfileHash, dockerIgnoreHash, newId) ==
    IF /\ buildMetadata.stored /\ buildMetadata.imageId # 0
       /\ exists /\ compareBuildImageOptions(buildMetadata.options, options)
       /\ buildMetadata.dockerfileHash = dockerfileHash
       /\ buildMetadata.dockerIgnoreHash = dockerIgnoreHash
    THEN [returned |-> buildMetadata.imageId, built |-> 0, metadata |-> buildMetadata]
    ELSE [returned |-> newId, built |-> 1,
          metadata |-> Metadata(dockerfileHash, dockerIgnoreHash, newId, options)]

\* `last` is the latest buildImage call: its arguments, what it found and what it did
NoCall ==
    [called |-> FALSE, options |-> BaseOptions, before |-> NoMetadata, exists |-> FALSE,
     dockerfileHash |-> "", dockerIgnoreHash |-> Missing, returned |-> 0, built |-> 0]

NoBuilds == [metadata |-> NoMetadata, builds |-> 0, invoked |-> 0, last |-> NoCall]

\* DefaultDockerManager.buildImage(options)
BuildImage(options, exists, dockerfileHash, dockerIgnoreHash) ==
    /\ build.invoked < MaxBuilds
    /\ LET out == buildImage(build.metadata, options, exists, dockerfileHash,
                             dockerIgnoreHash, build.builds + 1)
       IN  build' = [metadata |-> out.metadata, builds |-> build.builds + out.built,
                     invoked |-> build.invoked + 1,
                     last |-> [called |-> TRUE, options |-> options, before |-> build.metadata,
                               exists |-> exists, dockerfileHash |-> dockerfileHash,
                               dockerIgnoreHash |-> dockerIgnoreHash,
                               returned |-> out.returned, built |-> out.built]]
    /\ UNCHANGED <<launch, detector, watch, engine, record, env, cache, loads, refreshes, readers, client, nextId, disposals, events, calls>>

----------------------------------------------------------------------------
(* DefaultDockerManager: the debug containers kept in workspaceState *)

\* container ids: those tracked at the start and those of the launches to come
TrackedIds == {"a", "b"}
NewIds == <<"c", "d">>
ContainerIds == TrackedIds \cup {NewIds[i] : i \in DOMAIN NewIds}

\* a cleanupAfterLaunch() that has not been called
IdleCleanup ==
    [pc |-> "idle", debugContainers |-> <<>>, aliased |-> FALSE, matched |-> {},
     tasks |-> [id \in ContainerIds |-> "none"]]

\* workspaceState holds `list` under DebugContainersKey when `has`; `shares` is whether
\* Memento.get hands out the stored array itself or a copy of it; `during` are the ids
\* addToDebugContainers recorded while a cleanup was in progress
Launches(has, list, shares) ==
    [has |-> has, list |-> list, shares |-> shares, launched |-> 0, during |-> {},
     cleanup |-> IdleCleanup]

NoLaunch == Launches(FALSE, <<>>, FALSE)

\* workspaceState.get<string[]>(DebugContainersKey, [])
getDebugContainers(l) == IF l.has THEN l.list ELSE <<>>

CleanupBusy == launch.cleanup.pc \in {"listing", "removing"}

\* prepareForLaunch from the return of runContainer through addToDebugContainers: the list
\* is read, the new id pushed and the list stored. A cleanup that holds the stored array
\* itself and has not filtered it yet sees the push.
AddToDebugContainers ==
    /\ launch.launched < MaxLaunch
    /\ LET containerId == NewIds[launch.launched + 1]
           runningContainers == Append(getDebugContainers(launch), containerId)
           seen == launch.cleanup.pc = "listing" /\ launch.cleanup.aliased
       IN  launch' = [launch EXCEPT
               !.has = TRUE, !.list = runningContainers, !.launched = @ + 1,
               !.during = IF CleanupBusy THEN @ \cup {containerId} ELSE @,
               !.cleanup.debugContainers = IF seen THEN Append(@, containerId) ELSE @]
    /\ UNCHANGED <<build, detector, watch, engine, record, env, cache, loads, refreshes, readers, client, nextId, disposals, events, calls>>

\* cleanupAfterLaunch from its call to `await this.dockerClient.listContainers(...)`
CleanupStart ==
    /\ launch.cleanup.pc = "idle"
    /\ launch' = [launch EXCEPT
           !.cleanup = [IdleCleanup EXCEPT !.pc = "listing",
                                           !.debugContainers = getDebugContainers(launch),
                                           !.aliased = launch.has /\ launch.shares]]
    /\ UNCHANGED <<build, detector, watch, engine, record, env, cache, loads, refreshes, readers, client, nextId, disposals, events, calls>>

RECURSIVE remainingKeepingUnmatched(_, _)
\* a cleanup that keeps what it did not try to remove
remainingKeepingUnmatched(debugContainers, tasks) ==
    IF debugContainers = <<>> THEN <<>>
    ELSE (IF tasks[Head(debugContainers)] \in {"failed", "none"}
          THEN <<Head(debugContainers)>> ELSE <<>>)
         \o remainingKeepingUnmatched(Tail(debugContainers), tasks)

RECURSIVE remainingContainers(_, _)
\* (await Promise.all(removeContainerTasks)).filter(containerId => containerId !== undefined):
\* the ids whose removal threw, in the order of the list
remainingContainers(debugContainers, tasks) ==
    IF debugContainers = <<>> THEN <<>>
    ELSE (IF tasks[Head(debugContainers)] = "failed" THEN <<Head(debugContainers)>> ELSE <<>>)
         \o remainingContainers(Tail(debugContainers), tasks)

\* the end of cleanupAfterLaunch: workspaceState.update(DebugContainersKey, remainingContainers)
cleanupEnd(l, c) ==
    [l EXCEPT !.has = TRUE, !.list = remainingContainers(c.debugContainers, c.tasks),
              !.cleanup = [c EXCEPT !.pc = "done"]]

\* listContainers resolves; `matched` are the tracked ids that match a listed container.
\* A removal is started for each of them; with none, Promise.all resolves at once.
ListSettle(matched) ==
    /\ launch.cleanup.pc = "listing"
    /\ matched \subseteq {launch.cleanup.debugContainers[i] : i \in DOMAIN launch.cleanup.debugContainers}
    /\ LET c == [launch.cleanup EXCEPT
                    !.pc = "removing", !.matched = matched,
                    !.tasks = [id \in ContainerIds |-> IF id \in matched THEN "pending" ELSE "none"]]
       IN  launch' = IF matched = {} THEN cleanupEnd(launch, c) ELSE [launch EXCEPT !.cleanup = c]
    /\ UNCHANGED <<build, detector, watch, engine, record, env, cache, loads, refreshes, readers, client, nextId, disposals, events, calls>>

\* listContainers rejects: cleanupAfterLaunch rejects and stores nothing
ListReject ==
    /\ launch.cleanup.pc = "listing"
    /\ launch' = [launch EXCEPT !.cleanup.pc = "failed"]
    /\ UNCHANGED <<build, detector, watch, engine, record, env, cache, loads, refreshes, readers, client, nextId, disposals, events, calls>>

\* removeContainer(containerId, { force: true }) settles; after the last one Promise.all
\* resolves and the remaining ids are stored
RemoveSettle(containerId, ok) ==
    /\ launch.cleanup.pc = "removing"
    /\ launch.cleanup.tasks[containerId] = "pending"
    /\ LET c == [launch.cleanup EXCEPT !.tasks[containerId] = IF ok THEN "removed" ELSE "failed"]
       IN  launch' = IF \E id \in ContainerIds : c.tasks[id] = "pending"
                     THEN [launch EXCEPT !.cleanup = c]
                     ELSE cleanupEnd(launch, c)
    /\ UNCHANGED <<build, detector, watch, engine, record, env, cache, loads, refreshes, readers, client, nextId, disposals, events, calls>>

----------------------------------------------------------------------------
(* The specifications *)

InitWith(families) ==
    /\ env = Settings("", "")
    /\ cache = EmptyLazy
    /\ loads = <<>>
    /\ refreshes = [r \in Refreshers |-> IdleRefresh]
    /\ readers = [g \in Readers |-> IdleReader]
    /\ client \in {Backend(1, f) : f \in families}
    /\ nextId = 2
    /\ disposals = <<>>
    /\ events = <<>>
    /\ calls = [c \in Callers |-> IdleCall]
    /\ engine = NoAnswer
    /\ record = NoAnswer
    /\ watch = Watching
    /\ detector = IdleDetector
    /\ build = NoBuilds
    /\ launch = NoLaunch

\* the context manager: refresh() and getContexts()
Init == InitWith({"local", "remote"})

Next ==
    \/ \E r \in Refreshers : RefreshStart(r)
    \/ \E l \in 1..(MaxRefresh + MaxReaders), h \in SwitchStores : LoadSettle(l, h)
    \/ \E r \in Refreshers : RefreshResume(r)
    \/ \E g \in Readers : GetContextsStart(g)
    \/ \E g \in Readers : GetContextsResume(g)

Spec == Init /\ [][Next]_vars

\* the context manager over its life: refresh(), getContexts() and dispose()
LifeNext ==
    \/ Next
    \/ ManagerDispose

LifeSpec == Init /\ [][LifeNext]_vars

\* the context manager driven by its file watcher, over its life
WatchNext ==
    \/ \E r \in Refreshers : ConfigFileChange(r)
    \/ \E l \in 1..MaxRefresh, h \in SwitchStores : LoadSettle(l, h)
    \/ \E r \in Refreshers : RefreshResume(r)
    \/ ManagerDispose

WatchSpec == Init /\ [][WatchNext]_vars

\* the client selector: refresh() and the operations of the installed backend
SwapOps == {"getContainers", "inspectContainer"}

SwapNext ==
    \/ \E r \in Refreshers : RefreshStart(r)
    \/ \E l \in 1..MaxRefresh, h \in SwitchStores : LoadSettle(l, h)
    \/ \E r \in Refreshers : RefreshResume(r)
    \/ \E c \in Callers, op \in SwapOps : CallIssue(c, op, FALSE, FALSE)
    \/ \E c \in Callers : TransportResolve(c)
    \/ \E c \in Callers, err \in NativeErrors : TransportReject(c, err)

\* a Dockerode client is installed first (the extension's start-up client)
SwapInit == InitWith({"local"})

SwapSpec == SwapInit /\ [][SwapNext]_vars

\* the DockerServe client: every operation of the surface
ServeInit == InitWith({"remote"})

ServeNext ==
    \/ \E c \in Callers, op \in Surface : CallIssue(c, op, FALSE, FALSE)
    \/ \E c \in Callers : TransportResolve(c)
    \/ \E c \in Callers, err \in NativeErrors : TransportReject(c, err)

ServeSpec == ServeInit /\ [][ServeNext]_vars

\* the Dockerode client's per-call wrapper, with time
TimedOps == {"getContainers"}

TimedInit == InitWith({"local"})

TimedNext ==
    \/ \E c \in Callers, op \in TimedOps, tok \in BOOLEAN, hung \in BOOLEAN :
           CallIssue(c, op, tok, hung)
    \/ \E c \in Callers : TransportResolve(c)
    \/ \E c \in Callers, err \in NativeErrors : TransportReject(c, err)
    \/ \E c \in Callers : CancelToken(c)
    \/ \E c \in Callers : TimerFire(c)
    \/ Tick

\* time passes, and a due timer fires
TimedSpec ==
    /\ TimedInit
    /\ [][TimedNext]_vars
    /\ WF_vars(Tick)
    /\ \A c \in Callers : WF_vars(TimerFire(c))

\* the Dockerode client's operations called with a cancellation token
CancelOps == (DockerodeMethods \ {"getContexts"}) \cup {removeImageNoneTag}

CancelInit == InitWith({"local"})

CancelNext ==
    \/ \E c \in Callers, op \in CancelOps : CallIssue(c, op, TRUE, FALSE)
    \/ \E c \in Callers : TransportResolve(c)
    \/ \E c \in Callers, err \in NativeErrors : TransportReject(c, err)
    \/ \E c \in Callers : CancelToken(c)

CancelSpec == CancelInit /\ [][CancelNext]_vars

\* loadContexts under every host configuration and every kind of contexts store
StdoutThree ==
    <<Line(Ctx("default", "npipe", FALSE)), Line(Ctx("myaci", AciEndpoint, FALSE)),
      Line(Ctx("remote", "tcp", TRUE))>>

LoadStores ==
    {Store(FALSE, 0, FALSE, <<>>), Store(TRUE, 0, FALSE, <<>>), Store(TRUE, 1, TRUE, <<>>),
     Store(TRUE, 2, FALSE, StdoutThree)}
    \cup {Store(TRUE, 1, FALSE, s) : s \in {StdoutLocal, StdoutAci, StdoutMalformed}}

LoadInit ==
    /\ env \in {Settings(a, b) : a \in {"", "tcp://setting:2375"}, b \in {"", "tcp://env:2375"}}
    /\ cache = EmptyLazy
    /\ loads = <<>>
    /\ refreshes = [r \in Refreshers |-> IdleRefresh]
    /\ readers = [g \in Readers |-> IdleReader]
    /\ client = Backend(1, "local")
    /\ nextId = 2
    /\ disposals = <<>>
    /\ events = <<>>
    /\ calls = [c \in Callers |-> IdleCall]
    /\ engine = NoAnswer
    /\ record = NoAnswer
    /\ watch = Watching
    /\ detector = IdleDetector
    /\ build = NoBuilds
    /\ launch = NoLaunch

LoadNext ==
    \/ \E g \in Readers : GetContextsStart(g)
    \/ \E l \in 1..MaxReaders, h \in LoadStores : LoadSettle(l, h)
    \/ \E g \in Readers : GetContextsResume(g)

LoadSpec == LoadInit /\ [][LoadNext]_vars

\* the record builders of the Dockerode client, over the answers an engine can give
Aliases ==
    {<<"/", "a">>, <<"/", "b">>, <<"/", "a", "/", "b">>, <<"/", "b", "/", "a">>, <<"/">>}

AliasLists == {<<x>> : x \in Aliases} \cup {<<x, y>> : x, y \in Aliases}

Label(label, value) == [label |-> label, value |-> value]

LabelSets ==
    {<<>>,
     <<Label("maintainer", "me")>>,
     <<Label("com.docker.compose.project", "myapp")>>,
     <<Label("com.docker.compose.project", "")>>,
     <<Label("com.docker.compose.service", "web"), Label("com.docker.compose.project", "myapp")>>,
     <<Label("com.docker.compose.project", "shop"), Label("com.docker.compose.version", "1.29")>>}

\* creation instants: seconds since the epoch and milliseconds within the second (a JavaScript
\* number holds the product with 1000 exactly; the values stay below 2^31 / 1000 for TLC)
Seconds == {0, 1700000}
Millis == {0, 123}

ContainerInfos ==
    {[Names |-> n, Labels |-> l, Created |-> EpochSeconds(s)] :
        n \in AliasLists, l \in LabelSets, s \in Seconds}

Digests == {<<"r", "@", "s">>, <<"@", "s">>, <<"s">>, <<>>}

ImageInfos ==
    {[Id |-> "sha256:1", RepoTags |-> t, RepoDigests |-> d, Created |-> EpochSeconds(s)] :
        t \in {Undefined, List(<<>>), List(<<"app:1">>), List(<<"app:1", "app:latest">>)},
        d \in {<<>>} \cup {<<x>> : x \in Digests} \cup {<< <<"r", "@", "s">>, <<"q", "@", "s">> >>},
        s \in Seconds}

OtherImage ==
    [Id |-> "sha256:2", RepoTags |-> List(<<"db:9">>), RepoDigests |-> <<>>,
     Created |-> EpochSeconds(0)]

NetworkInfos == {[Id |-> "n1", Created |-> IsoString(s, ms)] : s \in Seconds, ms \in Millis}

VolumeInfos == {[Name |-> "v1", CreatedAt |-> IsoString(s, ms)] : s \in Seconds, ms \in Millis}

Deleted == {<<>>, <<"x">>, <<"x", "y">>}
Reclaimed == {0, 4096}

Answers ==
    {[kind |-> "containers", result |-> <<ci>>] : ci \in ContainerInfos}
    \cup {[kind |-> "images", result |-> <<image>>] : image \in ImageInfos}
    \cup {[kind |-> "images", result |-> <<image, OtherImage>>] : image \in ImageInfos}
    \cup {[kind |-> "networks", result |-> <<ni>>] : ni \in NetworkInfos}
    \cup {[kind |-> "volumes", result |-> [Volumes |-> <<vi>>]] : vi \in VolumeInfos}
    \cup {[kind |-> "pruneContainers",
           result |-> [ContainersDeleted |-> d, SpaceReclaimed |-> n]] :
             d \in Deleted, n \in Reclaimed}
    \cup {[kind |-> "pruneImages",
           result |-> [ImagesDeleted |-> d, SpaceReclaimed |-> n]] : d \in Deleted, n \in Reclaimed}
    \cup {[kind |-> "pruneNetworks", result |-> [NetworksDeleted |-> d]] : d \in Deleted}
    \cup {[kind |-> "pruneVolumes",
           result |-> [VolumesDeleted |-> d, SpaceReclaimed |-> n]] : d \in Deleted, n \in Reclaimed}

RecordInit ==
    /\ env = Settings("", "")
    /\ cache = EmptyLazy
    /\ loads = <<>>
    /\ refreshes = [r \in Refreshers |-> IdleRefresh]
    /\ readers = [g \in Readers |-> IdleReader]
    /\ client = Backend(1, "local")
    /\ nextId = 2
    /\ disposals = <<>>
    /\ events = <<>>
    /\ calls = [c \in Callers |-> IdleCall]
    /\ engine \in Answers
    /\ record = NoAnswer
    /\ watch = Watching
    /\ detector = IdleDetector
    /\ build = NoBuilds
    /\ launch = NoLaunch

RecordNext ==
    \/ GetContainers
    \/ GetImages
    \/ GetNetworks
    \/ NewDockerodeNetwork
    \/ GetVolumes
    \/ PruneContainers
    \/ PruneImages
    \/ PruneNetworks
    \/ PruneVolumes

RecordSpec == RecordInit /\ [][RecordNext]_vars

\* a ServerReadyDetector under every configuration and every sequence of outputs
DetectorInit ==
    /\ env = Settings("", "")
    /\ cache = EmptyLazy
    /\ loads = <<>>
    /\ refreshes = [r \in Refreshers |-> IdleRefresh]
    /\ readers = [g \in Readers |-> IdleReader]
    /\ client = Backend(1, "local")
    /\ nextId = 2
    /\ disposals = <<>>
    /\ events = <<>>
    /\ calls = [c \in Callers |-> IdleCall]
    /\ engine = NoAnswer
    /\ record = NoAnswer
    /\ watch = Watching
    /\ detector \in {NewDetector(ReadyAction(c, n)) : c \in BOOLEAN, n \in 0..2}
    /\ build = NoBuilds
    /\ launch = NoLaunch

DetectorNext ==
    \/ \E s \in Outputs : DetectPattern(s)
    \/ \E i \in 1..MaxOutputs, hostPort \in HostPorts : HostPortSettle(i, hostPort)

DetectorSpec == DetectorInit /\ [][DetectorNext]_vars

\* buildImage over requests that differ from one another in one option
BuildRequests ==
    {BaseOptions,
     [BaseOptions EXCEPT !.context = "ctx2"],
     [BaseOptions EXCEPT !.dockerfile = "Dockerfile.dev"],
     [BaseOptions EXCEPT !.tag = "app:test"],
     [BaseOptions EXCEPT !.target = "final"],
     [BaseOptions EXCEPT !.args = EmptyDict],
     [BaseOptions EXCEPT !.args = Dict([k \in DictKeys |-> "1"])],
     [BaseOptions EXCEPT !.args = Dict([k \in DictKeys |-> "2"])],
     [BaseOptions EXCEPT !.labels = Dict([k \in DictKeys |-> "1"])]}

DockerfileHashes == {"d1", "d2"}
DockerIgnoreHashes == {Missing, "i1"}

BuildInit ==
    /\ env = Settings("", "")
    /\ cache = EmptyLazy
    /\ loads = <<>>
    /\ refreshes = [r \in Refreshers |-> IdleRefresh]
    /\ readers = [g \in Readers |-> IdleReader]
    /\ client = Backend(1, "local")
    /\ nextId = 2
    /\ disposals = <<>>
    /\ events = <<>>
    /\ calls = [c \in Callers |-> IdleCall]
    /\ engine = NoAnswer
    /\ record = NoAnswer
    /\ watch = Watching
    /\ detector = IdleDetector
    /\ build \in {NoBuilds, [NoBuilds EXCEPT !.metadata = Metadata("d1", Missing, 0, BaseOptions)]}
    /\ launch = NoLaunch

BuildNext ==
    \E options \in BuildRequests, exists \in BOOLEAN, dockerfileHash \in DockerfileHashes,
       dockerIgnoreHash \in DockerIgnoreHashes :
        BuildImage(options, exists, dockerfileHash, dockerIgnoreHash)

BuildSpec == BuildInit /\ [][BuildNext]_vars

\* launches and one cleanup, interleaved
LaunchInit ==
    /\ env = Settings("", "")
    /\ cache = EmptyLazy
    /\ loads = <<>>
    /\ refreshes = [r \in Refreshers |-> IdleRefresh]
    /\ readers = [g \in Readers |-> IdleReader]
    /\ client = Backend(1, "local")
    /\ nextId = 2
    /\ disposals = <<>>
    /\ events = <<>>
    /\ calls = [c \in Callers |-> IdleCall]
    /\ engine = NoAnswer
    /\ record = NoAnswer
    /\ watch = Watching
    /\ detector = IdleDetector
    /\ build = NoBuilds
    /\ launch \in {Launches(FALSE, <<>>, shares) : shares \in BOOLEAN}
                 \cup {Launches(TRUE, list, shares) :
                         list \in {<<>>, <<"a">>, <<"a", "b">>}, shares \in BOOLEAN}

LaunchNext ==
    \/ AddToDebugContainers
    \/ CleanupStart
    \/ \E matched \in SUBSET ContainerIds : ListSettle(matched)
    \/ ListReject
    \/ \E containerId \in ContainerIds, ok \in BOOLEAN : RemoveSettle(containerId, ok)

LaunchSpec == LaunchInit /\ [][LaunchNext]_vars

\* tagImage over every full tag of up to MaxTagLen characters
MaxTagLen == 4
TagChars == {"h", "t", ":", "/"}
FullTags == UNION {[1..n -> TagChars] : n \in 1..MaxTagLen}

TagInit ==
    /\ env = Settings("", "")
    /\ cache = EmptyLazy
    /\ loads = <<>>
    /\ refreshes = [r \in Refreshers |-> IdleRefresh]
    /\ readers = [g \in Readers |-> IdleReader]
    /\ client = Backend(1, "local")
    /\ nextId = 2
    /\ disposals = <<>>
    /\ events = <<>>
    /\ calls = [c \in Callers |-> IdleCall]
    /\ engine \in {[kind |-> "tagImage", fullTag |-> t] : t \in FullTags}
    /\ record = NoAnswer
    /\ watch = Watching
    /\ detector = IdleDetector
    /\ build = NoBuilds
    /\ launch = NoLaunch

TagNext == TagImage

TagSpec == TagInit /\ [][TagNext]_vars

----------------------------------------------------------------------------
(* Claims about context switching *)

\* the list refresh r obtained from the cache
Obtained(r) ==
    IF refreshes[r].promise = 0 THEN refreshes[r].got ELSE loads[refreshes[r].promise].result

\* refresh r runs from its await to its successful end in this step
Completes(r) == refreshes[r].pc = "awaiting" /\ refreshes'[r].pc = "done"

\* C1 (as claimed): swap atomicity. For every refresh that swapped backend X for
\* backend Y and every call issued after that refresh began (the context change was
\* detected), the call's request was not dispatched against X: it waited for the swap
\* and went to Y.
SwapAtomicity ==
    \A c \in Callers, r \in Refreshers :
        ( /\ calls[c].contacted > 0
          /\ refreshes[r].pc = "done" /\ refreshes[r].swapped
          /\ calls[c].begun >= r )
        => calls[c].backend # refreshes[r].old

\* C2: backend switch. A refresh that completes with a current context of the aci
\* endpoint while a local backend is installed leaves a remote backend installed that
\* is a new instance, the old instance disposed; symmetrically a current context of
\* any other endpoint while a remote backend is installed leaves a new local backend
\* installed and the remote one disposed.
BackendSwitch ==
    [][ \A r \in Refreshers :
          Completes(r) =>
            LET cur == findCurrent(Obtained(r).items)
                other == IF client.family = "local" THEN "remote" ELSE "local"
            IN  (cur.DockerEndpoint = AciEndpoint <=> client.family = "local")
                => /\ client'.family = other
                   /\ client'.id >= nextId /\ client'.id \notin Disposed'
                   /\ client.id \in Disposed' ]_vars

BackendSwitchWitness ==
    \E r \in Refreshers :
        /\ refreshes[r].pc = "done" /\ refreshes[r].swapped
        /\ refreshes[r].ctx.DockerEndpoint = AciEndpoint
        /\ client.family = "remote" /\ client.id = refreshes[r].new
        /\ refreshes[r].old \in Disposed

\* C3: no needless swap. A refresh that completes with a current context implying the
\* family of the installed backend leaves that instance installed, disposes nothing
\* and constructs nothing.
NoNeedlessSwap ==
    [][ \A r \in Refreshers :
          ( Completes(r) /\ familyFor(findCurrent(Obtained(r).items)) = client.family )
          => client' = client /\ disposals' = disposals /\ nextId' = nextId ]_vars

NoNeedlessSwapWitness ==
    \E r \in Refreshers :
        /\ refreshes[r].pc = "done" /\ ~ refreshes[r].swapped
        /\ client.id = 1 /\ disposals = <<>>

\* C4 (as claimed): single current. Every list a getContexts() call returned has
\* exactly one entry with Current = TRUE (an enumeration with none or several is an
\* error, never a returned list).
SingleCurrent ==
    \A g \in Readers :
        (readers[g].pc = "done" /\ readers[g].result.kind = "list")
        => CurrentCount(readers[g].result.items) = 1

\* getContexts() call g came right after call g - 1 had returned, call g - 1 began with
\* no refresh() or getContexts() in progress, and no refresh() began before g returned
Consecutive(g) ==
    /\ g > 1
    /\ readers[g].pc = "done" /\ readers[g].afterPrev
    /\ readers[g - 1].quiet
    /\ readers[g - 1].clears0 = readers[g].clears1

EveryRefreshFiresOnce ==
    \A r \in Refreshers :
        refreshes[r].pc \in {"done", "failed"}
        => /\ refreshes[r].primary
           /\ CountBy(events, r) = 1
           /\ \A i \in DOMAIN events :
                events[i].by = r => events[i].ctx = findCurrent(Obtained(r).items)

\* C6 (amended): every refresh() invalidates the list and starts a new enumeration; a
\* refresh whose enumeration yields a list with a current entry fires onContextChanged
\* exactly once, carrying the first current entry of that list; a refresh whose
\* enumeration fails or yields no current entry rejects without firing.
RefreshFiresOnceWhenCurrent ==
    \A r \in Refreshers :
        /\ refreshes[r].pc # "idle" => refreshes[r].primary /\ refreshes[r].promise # 0
        /\ refreshes[r].pc \in {"idle", "awaiting"} => CountBy(events, r) = 0
        /\ refreshes[r].pc = "done"
           => /\ Obtained(r).kind = "list" /\ CurrentCount(Obtained(r).items) > 0
              /\ CountBy(events, r) = 1
              /\ \A i \in DOMAIN events :
                   events[i].by = r => /\ events[i].ctx = findCurrent(Obtained(r).items)
                                       /\ events[i].ctx.Current
        /\ refreshes[r].pc = "failed"
           => /\ Obtained(r).kind = "undefined" \/ CurrentCount(Obtained(r).items) = 0
              /\ CountBy(events, r) = 0

RefreshFiresOnceWitness ==
    /\ \E r \in Refreshers : refreshes[r].pc = "done" /\ CountBy(events, r) = 1
    /\ \E r \in Refreshers : refreshes[r].pc = "failed" /\ Obtained(r).kind = "list"

\* C7 (as claimed): stale but valid. A getContexts() call made after a refresh whose
\* enumeration failed, with no later refresh, returns the list that was memoized
\* before that refresh.
StaleButValid ==
    \A g \in Readers :
        ( /\ readers[g].pc = "done" /\ readers[g].afterFailed
          /\ readers[g].clears0 = readers[g].clears1 )
        => LET r == readers[g].clears0
           IN  refreshes[r].prev.kind = "list" => readers[g].result = refreshes[r].prev

----------------------------------------------------------------------------
(* Claims about the two clients *)

\* the error names the operation: the name is a part of its message
Carries(err, op) == \E i \in DOMAIN err.message : err.message[i] = op

\* C8 (as claimed): capability fault shape. An operation of the remote backend that
\* only the local backend supports rejects with a NotSupportedError that carries the
\* name of the attempted operation.
CapabilityFaultShape ==
    \A c \in Callers :
        ( /\ calls[c].st = "settled" /\ calls[c].family = "remote"
          /\ calls[c].op \in ServeMethods \ ServeImplemented )
        => /\ calls[c].outcome.kind = "rejected"
           /\ calls[c].outcome.error.errorType = "NotSupportedError"
           /\ Carries(calls[c].outcome.error, calls[c].op)

\* C9 (as claimed): on the remote backend getContainers, stopContainer and
\* removeContainer reach the backend; every other operation of the surface rejects
\* with the NotSupportedError and sends nothing to the backend.
RemoteSurface ==
    \A c \in Callers :
        (calls[c].st # "idle" /\ calls[c].family = "remote")
        => IF calls[c].op \in {"getContainers", "stopContainer", "removeContainer"}
           THEN calls[c].contacted = 1
           ELSE /\ calls[c].st = "settled"
                /\ calls[c].outcome = Rejected(NotSupportedError)
                /\ calls[c].contacted = 0

TimedOut(c) == calls[c].st = "settled" /\ calls[c].outcome = Rejected(TimeoutError)

Cancelled(c) == calls[c].st = "settled" /\ calls[c].outcome = Rejected(UserCancelledError)

Hanging(c) == calls[c].st = "inflight" /\ calls[c].family = "local" /\ calls[c].hung

\* C10: timeout behaviour. A local call whose transport never settles is rejected
\* with the timeout error unless its token is fired first (always, when it has no
\* token); no call is rejected with the timeout error before dockerodeCallTimeout
\* seconds have passed since it began; and no settled call has a pending timer,
\* however many calls were made before it.
TimeoutBehaviour ==
    /\ [](\A c \in Callers :
            /\ TimedOut(c) => calls[c].age >= dockerodeCallTimeout
            /\ calls[c].st = "settled" => ~ calls[c].timer)
    /\ \A c \in Callers : (Hanging(c) /\ ~ calls[c].token) ~> TimedOut(c)
    /\ \A c \in Callers : Hanging(c) ~> (TimedOut(c) \/ Cancelled(c))

TimeoutBehaviourWitness ==
    \A c \in Callers :
        /\ TimedOut(c) /\ calls[c].hung /\ ~ calls[c].token
        /\ calls[c].age >= dockerodeCallTimeout /\ ~ calls[c].timer

\* C11 (as claimed): external cancellation. Every operation of the local backend
\* that was called with a token and whose token fired while it was in flight has
\* been rejected with the cancellation error, getContainerLogs and both steps of
\* removeImage included.
ExternalCancellation ==
    \A c \in Callers :
        (calls[c].family = "local" /\ calls[c].fired) => Cancelled(c)

\* C12 (as claimed): fail fast on swap. A call of the local backend that was in
\* flight when a refresh began, and whose backend that refresh swapped out, is not
\* left in flight by the swap: the "context is changing" cancellation rejected it,
\* unless it had settled before.
FailFastOnSwap ==
    \A c \in Callers, r \in Refreshers :
        ( /\ calls[c].family = "local" /\ calls[c].contacted > 0
          /\ calls[c].begun < r
          /\ refreshes[r].pc = "done" /\ refreshes[r].swapped
          /\ refreshes[r].old = calls[c].backend )
        => calls[c].st = "settled"

\* the error classes that say the engine cannot be reached
EngineUnreachable == {"ENOENT", "ECONNREFUSED"}

\* C13 (as claimed): connection fault translation. A call of the local backend
\* that failed with an error of the engine-unreachable class (connection refused
\* included) is rejected with the "Failed to connect" error and not with the raw
\* error; a call that failed with an error of any other class is rejected with that
\* error unchanged.
ConnectionFaultTranslation ==
    \A c \in Callers :
        (calls[c].st = "settled" /\ calls[c].family = "local" /\ calls[c].raw # NoError)
        => IF calls[c].raw.errorType \in EngineUnreachable
           THEN /\ calls[c].outcome = Rejected(failedToConnect(calls[c].raw))
                /\ calls[c].outcome.error # calls[c].raw
           ELSE calls[c].outcome = Rejected(calls[c].raw)

----------------------------------------------------------------------------
(* Claims about loadContexts *)

Malformed(lines) == \E i \in DOMAIN lines : ~ lines[i].ok

\* the enumeration getContexts() call g awaited ran `docker context ls`, and its
\* output had a malformed line
GotMalformed(g) ==
    /\ readers[g].pc \in {"done", "failed"}
    /\ readers[g].promise # 0
    /\ loads[readers[g].promise].exec
    /\ ~ loads[readers[g].promise].found.execFails
    /\ Malformed(loads[readers[g].promise].found.stdout)

\* C14 (as claimed): parse failure is total. A getContexts() call whose enumeration
\* read a malformed line has failed: it did not resolve, neither with the lines
\* parsed before the bad one nor with an empty or undefined result.
ParseFailureTotal ==
    \A g \in Readers : GotMalformed(g) => readers[g].pc = "failed"

\* getContexts() call g returned the result of an enumeration it awaited
Enumerated(g) == readers[g].pc = "done" /\ readers[g].promise # 0

----------------------------------------------------------------------------
(* Claims about the records of the Dockerode client *)

HasSeparator(name) == \E i \in 1..Len(name) : name[i] = "/"

Canonical(aliases) ==
    LET qualifying == {i \in 1..Len(aliases) : ~ HasSeparator(Tail(aliases[i]))}
    IN  IF qualifying = {} THEN Tail(aliases[1])
        ELSE Tail(aliases[CHOOSE i \in qualifying : \A j \in qualifying : i <= j])

\* C15  Name canonicalization: for a non-empty alias list whose aliases start with '/', the
\* name of the container record is the first alias that has no separator after its leading one
\* is removed, and the first alias without its leading separator if no alias qualifies.
NameCanonicalization ==
    record.kind = "containers" =>
        \A i \in 1..Len(record.list) :
            record.list[i].Name = Canonical(engine.result[i].Names)

\* a linked alias comes first and the canonical name is taken from the second alias
NameCanonicalizationWitness ==
    /\ record.kind = "containers"
    /\ engine.result[1].Names = << <<"/", "a", "/", "b">>, <<"/", "b">> >>
    /\ record.list[1].Name = <<"b">>

Labelled(labels) == {i \in 1..Len(labels) : labels[i].label = "com.docker.compose.project"}

\* C16  Compose grouping: composeProjectName of a container record is the value of the
\* container's com.docker.compose.project label when the label is present, and the sentinel
\* "Other Containers" when it is not (an empty label set included).
ComposeGrouping ==
    record.kind = "containers" =>
        \A i \in 1..Len(record.list) :
            LET labels == engine.result[i].Labels
            IN  /\ Labelled(labels) = {} => record.list[i].composeProjectName = "Other Containers"
                /\ \A k \in Labelled(labels) :
                       record.list[i].composeProjectName = labels[k].value

\* the project label comes second among a container's labels and gives the group
ComposeGroupingWitness ==
    /\ record.kind = "containers"
    /\ Len(engine.result[1].Labels) = 2
    /\ engine.result[1].Labels[2].label = "com.docker.compose.project"
    /\ record.list[1].composeProjectName = "myapp"

\* the creation time the engine reported for a record, and the one the record shows
reported(rec) ==
    IF "networkInfo" \in DOMAIN rec THEN rec.networkInfo.Created
    ELSE IF "CreatedAt" \in DOMAIN rec THEN rec.CreatedAt
    ELSE rec.Created

createdTime(rec) ==
    IF "createdTime" \in DOMAIN rec THEN rec.createdTime ELSE rec.CreatedTime

\* the instant of a reported creation time, in milliseconds since the epoch
EpochMilliseconds(created) ==
    Number(created.secs * 1000 + (IF created.fmt = "iso" THEN created.millis ELSE 0))

Listed == {"containers", "images", "networks", "volumes"}

\* C17  Timestamp normalization: the createdTime of every container, image, network and
\* volume record is the reported instant in epoch milliseconds, whether the engine reported
\* epoch seconds or an ISO-8601 string (so both representations of an instant give one value).
TimestampNormalization ==
    record.kind \in Listed =>
        \A i \in 1..Len(record.list) :
            createdTime(record.list[i]) = EpochMilliseconds(reported(record.list[i]))

\* the same, for the records the methods of DockerodeApiClient return
TimestampNormalizationOfClient ==
    record.kind \in Listed =>
        \A i \in 1..Len(record.list) :
            "CreatedTime" \in DOMAIN record.list[i] =>
                record.list[i].CreatedTime = EpochMilliseconds(reported(record.list[i]))

\* the positions of '@' in a digest, and the name synthesized for an image without tags
Ats(digest) == {k \in 1..Len(digest) : digest[k] = "@"}

Synthesized(image) ==
    LET digest == IF image.RepoDigests = <<>> THEN <<>> ELSE image.RepoDigests[1]
        first == IF Ats(digest) = {} THEN 0 ELSE CHOOSE k \in Ats(digest) : \A j \in Ats(digest) : k <= j
    IN  IF first > 1
        THEN SubSeq(digest, 1, first - 1) \o <<":", "<none>">>
        ELSE <<"<none>", ":", "<none>">>

Untagged(image) == image.RepoTags = Undefined \/ image.RepoTags = List(<<>>)

\* the (image, name) pairs the image list has to show for one engine image
Surfaced(image) ==
    IF Untagged(image) THEN <<[Id |-> image.Id, Name |-> Synthesized(image)]>>
    ELSE [t \in 1..Len(image.RepoTags.items) |-> [Id |-> image.Id, Name |-> image.RepoTags.items[t]]]

RECURSIVE SurfacedAll(_)
SurfacedAll(images) ==
    IF images = <<>> THEN <<>> ELSE Surfaced(Head(images)) \o SurfacedAll(Tail(images))

Shown(list) == [i \in 1..Len(list) |-> [Id |-> list[i].Id, Name |-> list[i].Name]]

\* C18  Image naming: getImages returns exactly one record per repo:tag pair of each engine
\* image, and an image with no tags (tag list absent or empty) exactly once, named
\* '<repo>:<none>' after the part of its first digest before '@', or '<none>:<none>' when it
\* has no usable digest.
ImageNaming ==
    record.kind = "images" => Shown(record.list) = SurfacedAll(engine.result)

\* the same, for answers in which no image has an empty tag list
ImageNamingWithoutEmptyTagLists ==
    (record.kind = "images" /\ \A i \in 1..Len(engine.result) :
                                  engine.result[i].RepoTags # List(<<>>))
        => Shown(record.list) = SurfacedAll(engine.result)

\* what the engine reports for a prune request: the objects deleted and the bytes reclaimed
ReportedDeleted(answer) ==
    IF answer.kind = "pruneContainers" THEN answer.result.ContainersDeleted
    ELSE IF answer.kind = "pruneImages" THEN answer.result.ImagesDeleted
    ELSE IF answer.kind = "pruneNetworks" THEN answer.result.NetworksDeleted
    ELSE answer.result.VolumesDeleted

ReportedReclaimed(answer) ==
    IF answer.kind = "pruneNetworks" THEN 0 ELSE answer.result.SpaceReclaimed

Pruned == {"pruneContainers", "pruneImages", "pruneNetworks", "pruneVolumes"}

----------------------------------------------------------------------------
(* Claims about the per-call race of the Dockerode client *)

\* a call of the local backend that went through Promise.race and has settled
Raced(c) == calls[c].family = "local" /\ calls[c].contacted > 0 /\ calls[c].st = "settled"

\* the arm whose settlement decided the call
Won(c) ==
    IF calls[c].outcome = Resolved THEN "call"
    ELSE IF calls[c].raw = TimeoutError THEN "timeout"
    ELSE IF calls[c].raw = UserCancelledError THEN "token"
    ELSE "call"

\* C21  Per-call race: every call of the local backend settles with the outcome of the arm
\* that settled first: its own result or error, the timeout, the context-changing
\* cancellation, or the caller's token when one was supplied. A token that fired while the
\* call was in flight settled before the call did, so the call ended cancelled; a call that
\* timed out had its timer due.
PerCallRace ==
    \A c \in Callers :
        Raced(c) =>
            /\ calls[c].fired => Won(c) = "token"
            /\ Won(c) = "token" => calls[c].fired /\ Cancelled(c)
            /\ Won(c) = "timeout" => calls[c].age >= calls[c].deadline /\ TimedOut(c)

\* the same, for the methods that hand the caller's token to every race they enter
PerCallRaceWithTokenInRace ==
    \A c \in Callers :
        (Raced(c) /\ calls[c].op \in DockerodePassesToken) =>
            /\ calls[c].fired => Won(c) = "token"
            /\ Won(c) = "token" => calls[c].fired /\ Cancelled(c)
            /\ Won(c) = "timeout" => calls[c].age >= calls[c].deadline /\ TimedOut(c)

\* C22  Timer release: in every reachable state a call of the local backend that has settled,
\* by its result, a native error, the timeout or the caller's token, has no pending timeout
\* timer and no registered timeout listener.
TimerRelease ==
    \A c \in Callers :
        (calls[c].family = "local" /\ calls[c].st = "settled") =>
            ~ calls[c].timer /\ ~ calls[c].listener

\* one call was decided by its timer and the other by a native error; both timers are released
TimerReleaseWitness ==
    /\ Raced(1) /\ Won(1) = "timeout"
    /\ Raced(2) /\ calls[2].raw \in NativeErrors
    /\ \A c \in Callers : ~ calls[c].timer /\ ~ calls[c].listener

----------------------------------------------------------------------------
(* Claims about the installed backend *)

NoneDisposedTwice == \A i, j \in DOMAIN disposals : i # j => disposals[i] # disposals[j]

\* a step that installs another backend disposed the one it replaces and installs one that
\* was never disposed
SwapStep == client.id \notin Disposed /\ client.id \in Disposed' /\ client'.id \notin Disposed'

\* C23  Dispose before install: in every swap the old backend's dispose() has run when the new
\* backend is installed, each swapped-out backend is disposed exactly once, and no backend
\* that is still installed has been disposed.
DisposeBeforeInstall ==
    /\ [](client.id \notin Disposed /\ NoneDisposedTwice)
    /\ [][client' # client => SwapStep]_vars

\* the same, up to the manager's own dispose()
DisposeBeforeInstallWhileAlive ==
    /\ [](ManagerDisposals = 0 => (client.id \notin Disposed /\ NoneDisposedTwice))
    /\ [][(client' # client /\ ManagerDisposals = 0) => SwapStep]_vars

\* refresh r runs from its await to its end in this step and swaps the backend
Swaps(r) ==
    /\ refreshes[r].pc = "awaiting" /\ refreshes'[r].pc = "done" /\ refreshes'[r].swapped
    /\ refreshes'[r].old = client.id /\ refreshes'[r].new = client'.id

InstalledBy(r, b) == refreshes[r].pc = "done" /\ refreshes[r].swapped /\ refreshes[r].new = b

\* C25  Notification ordering: for every context change that swaps the backend, the change
\* notification is delivered before any call is dispatched against the new backend: the step
\* that installs a backend delivers the notification for its context, so no call is dispatched
\* between the swap and the delivery, and every request sent to a swapped-in backend was sent
\* after the notification of the refresh that installed it.
NotificationOrdering ==
    /\ [][client' # client =>
            /\ Len(events') = Len(events) + 1
            /\ familyFor(events'[Len(events')].ctx) = client'.family
            /\ calls' = calls]_vars
    /\ [](\A c \in Callers :
            (calls[c].contacted > 0 /\ calls[c].backend > 1) =>
                \E r \in Refreshers : InstalledBy(r, calls[c].backend) /\ CountBy(events, r) = 1)

\* a request went to the backend the first refresh installed, after its notification
NotificationOrderingWitness ==
    /\ InstalledBy(1, 2)
    /\ calls[1].contacted > 0 /\ calls[1].backend = 2
    /\ CountBy(events, 1) = 1

----------------------------------------------------------------------------
(* Claims about the memoized list under refresh *)

\* getContexts() call g awaited the enumeration refresh r started: it ran while r was in
\* progress
ConcurrentWith(g, r) ==
    /\ readers[g].pc = "done"
    /\ readers[g].promise # 0 /\ readers[g].promise = refreshes[r].promise

\* the list holds every context the listing printed, in order
Complete(list, stdout) ==
    /\ list.kind = "list"
    /\ Len(list.items) = Len(stdout) /\ Len(stdout) > 0
    /\ \A i \in 1..Len(stdout) : stdout[i].ok /\ list.items[i] = stdout[i].ctx

\* C26  Atomic refresh for readers: a getContexts() call that runs concurrently with a
\* refresh in progress returns the complete list memoized before the refresh or the complete
\* newly computed list, never a partial, empty or undefined one.
AtomicRefreshForReaders ==
    \A g \in Readers, r \in Refreshers :
        ConcurrentWith(g, r) =>
            \/ readers[g].result.kind = "list" /\ readers[g].result = refreshes[r].prev
            \/ Complete(readers[g].result, loads[readers[g].promise].found.stdout)

\* the same, with undefined allowed for an enumeration that failed
AtomicRefreshOrUndefined ==
    \A g \in Readers, r \in Refreshers :
        ConcurrentWith(g, r) =>
            \/ /\ readers[g].result = Undefined
               /\ Malformed(loads[readers[g].promise].found.stdout)
            \/ Complete(readers[g].result, loads[readers[g].promise].found.stdout)

----------------------------------------------------------------------------
(* Claims about failed calls of the Dockerode client *)

\* the engine requests one invocation makes: removeImage of a ':<none>' ref inspects, then
\* removes; every other operation makes one
Requests(c) == IF calls[c].step = 2 THEN 2 ELSE 1

\* C27  No automatic retry: for every operation of the local backend each underlying engine
\* request is issued at most once per call; a call that failed, timed out or was cancelled
\* has sent its request once and is not sent again by this layer.
NoAutomaticRetry ==
    \A c \in Callers :
        calls[c].family = "local" =>
            /\ calls[c].contacted <= Requests(c)
            /\ (Raced(c) /\ calls[c].outcome.kind = "rejected") =>
                   calls[c].contacted = Requests(c)

\* one call timed out and the other failed with a native error, each after one request
NoAutomaticRetryWitness ==
    /\ TimedOut(1) /\ calls[1].contacted = 1
    /\ Raced(2) /\ calls[2].raw \in NativeErrors /\ calls[2].contacted = 1

\* C28  When a call of the local backend is rejected by its timeout, suppressReportIssue is
\* set on the call's action context by the time the rejection reaches the caller.
TimeoutNotReportable ==
    \A c \in Callers :
        (calls[c].family = "local" /\ TimedOut(c)) => calls[c].suppress

\* one call timed out and is marked; the other returned its result and is not
TimeoutNotReportableWitness ==
    /\ TimedOut(1) /\ calls[1].suppress
    /\ Raced(2) /\ calls[2].outcome = Resolved /\ ~ calls[2].suppress

\* a refresh() is invoked in this step (by the config file watcher or explicitly)
Invoked(r) == refreshes[r].pc = "idle" /\ refreshes'[r].pc # "idle"

\* every refresh() invocation clears the memoized list and starts an enumeration, and no other
\* step takes a memoized list away
InvalidationByRefreshOnly ==
    /\ [][\A r \in Refreshers :
            Invoked(r) => ~ cache'.isValueCreated /\ Len(loads') = Len(loads) + 1]_vars
    /\ [][(cache.isValueCreated /\ ~ cache'.isValueCreated) => \E r \in Refreshers : Invoked(r)]_vars

\* getContexts() call g began after refresh r had been invoked, and no refresh was invoked
\* from then until g returned
NextAfter(g, r) ==
    /\ readers[g].pc = "done"
    /\ readers[g].clears0 = r /\ readers[g].clears1 = r

\* the value comes from the enumeration refresh r started, or from a later one
FromNewEnumeration(value, r) ==
    \E k \in DOMAIN loads :
        k >= refreshes[r].promise /\ loads[k].st = "settled" /\ loads[k].result = value

----------------------------------------------------------------------------
(* Claims about overlapping refreshes *)

\* every refresh() invoked has run to its end, by returning or by throwing
AllSettled == \A r \in Refreshers : refreshes[r].pc \in {"done", "failed"}

\* the enumeration started by the refresh() invoked last
LatestEnumeration == loads[refreshes[MaxRefresh].promise]

\* the latest enumeration listed the contexts and one of them is the current one
LatestHasCurrent ==
    /\ LatestEnumeration.result.kind = "list"
    /\ findCurrent(LatestEnumeration.result.items) # NoContext

\* the refresh() that fired its event last, i.e. the one that ran its swap last
LastFired == events[Len(events)].by

\* C30  Overlapping refreshes converge: for every interleaving of two refresh() calls, once
\* both have settled the installed backend's family is the one implied by the current context
\* of the latest enumeration, and no backend has been disposed twice or is installed after
\* being disposed. (Two refreshes that do not overlap are covered as well: the second one
\* then runs its swap last.)
OverlappingRefreshesConverge ==
    (AllSettled /\ LatestHasCurrent) =>
        /\ client.family = familyFor(findCurrent(LatestEnumeration.result.items))
        /\ client.id \notin Disposed
        /\ NoneDisposedTwice

\* what the swap does give: the family follows the refresh() whose enumeration was awaited
\* last, whichever was invoked last, and the disposals are as stated
ConvergeToLastResumed ==
    (AllSettled /\ events # <<>>) =>
        /\ client.family = familyFor(refreshes[LastFired].ctx)
        /\ client.id \notin Disposed
        /\ NoneDisposedTwice

\* the second refresh() was invoked while the first awaited its enumeration, and the first
\* one resumed after the second had finished
ResumedOutOfOrder ==
    /\ AllSettled /\ LatestHasCurrent
    /\ Len(events) = MaxRefresh /\ events[1].by = MaxRefresh /\ LastFired = 1
    /\ refreshes[1].ctx.DockerEndpoint # refreshes[MaxRefresh].ctx.DockerEndpoint

----------------------------------------------------------------------------
(* Claims about a refresh that fails *)

NoCurrentIn(lines) == \A i \in DOMAIN lines : ~ (lines[i].ok /\ lines[i].ctx.Current)

\* enumeration l ran `docker context ls` and it failed, printed a malformed line, or printed
\* no current context
Fruitless(l) ==
    /\ l \in DOMAIN loads
    /\ loads[l].st = "settled" /\ loads[l].exec
    /\ \/ loads[l].found.execFails
       \/ Malformed(loads[l].found.stdout)
       \/ NoCurrentIn(loads[l].found.stdout)

\* refresh r runs from its await to its end in this step
Ends(r) == refreshes[r].pc = "awaiting" /\ refreshes'[r].pc # "awaiting"

\* C31  Failed refresh is inert: a refresh() whose enumeration fails or whose recomputed list
\* has no current entry rejects, leaves the installed backend as it is (nothing disposed,
\* nothing installed) and fires no onContextChanged event.
FailedRefreshInert ==
    [][\A r \in Refreshers :
          (Ends(r) /\ Fruitless(refreshes[r].promise)) =>
              /\ refreshes'[r].pc = "failed"
              /\ client' = client /\ nextId' = nextId
              /\ disposals' = disposals
              /\ events' = events]_vars

\* one refresh() rejected on a malformed line, the other on a list with no current entry
FailedRefreshInertWitness ==
    /\ refreshes[1].pc = "failed" /\ Fruitless(refreshes[1].promise)
    /\ Malformed(loads[refreshes[1].promise].found.stdout)
    /\ refreshes[2].pc = "failed" /\ Fruitless(refreshes[2].promise)
    /\ ~ Malformed(loads[refreshes[2].promise].found.stdout)
    /\ client.id = 1 /\ disposals = <<>> /\ events = <<>>

----------------------------------------------------------------------------
(* Claims about the config file watcher *)

\* C32  After the context manager's dispose(), a later change of the config file no longer
\* runs refresh(): no refresh() is run by the watcher once dispose() has been called, so no
\* change event fires and the backend is not swapped after disposal.
WatcherStopsAtDispose ==
    \A i \in DOMAIN watch.ran : ~ watch.ran[i].disposed

\* a refresh() the watcher ran after dispose() swapped the backend and fired the event
SwappedAfterDispose ==
    \E i \in DOMAIN watch.ran :
        /\ watch.ran[i].disposed
        /\ refreshes[watch.ran[i].r].swapped
        /\ CountBy(events, watch.ran[i].r) = 1

\* dispose() does dispose the installed backend, and takes no listener off the watcher
DisposeKeepsWatching ==
    /\ watch.listeners = {ConstructorListener}
    /\ ManagerDisposals > 0 => Len(disposals) > 0

----------------------------------------------------------------------------
(* Claims about the host override *)

\* C33  Host override: when the docker.host setting or, failing that, the DOCKER_HOST
\* environment variable is non-empty, getContexts() returns exactly one context, named
\* default, with Current = TRUE and DockerEndpoint equal to that value (the setting before
\* the environment variable), whatever the contexts store holds and without running
\* `docker context ls`.
HostOverride ==
    \A g \in Readers :
        Enumerated(g) =>
            LET load == loads[readers[g].promise]
                host == IF env.host # "" THEN env.host ELSE env.DOCKER_HOST
            IN  (env.host # "" \/ env.DOCKER_HOST # "") =>
                    /\ readers[g].result = List(<<Ctx("default", host, TRUE)>>)
                    /\ ~ load.exec

\* both are set and the store lists three contexts: the setting decides
HostOverrideWitness ==
    /\ env.host # "" /\ env.DOCKER_HOST # ""
    /\ Enumerated(1)
    /\ loads[readers[1].promise].found.stdout = StdoutThree
    /\ readers[1].result = List(<<Ctx("default", env.host, TRUE)>>)

----------------------------------------------------------------------------
(* Claims about the action context of a call *)

\* C34  Every call of the local backend that rejects, whatever the reason (native error,
\* connection failure, timeout, cancellation), has suppressReportIssue set on its action
\* context when the error reaches the caller, and a call that resolves leaves
\* suppressReportIssue as it was (unset).
RejectionNotReportable ==
    \A c \in Callers :
        Raced(c) =>
            /\ calls[c].outcome.kind = "rejected" => calls[c].suppress
            /\ calls[c].outcome = Resolved => ~ calls[c].suppress

\* one call was rejected with a native error of the engine and is marked; the other
\* resolved and is not
RejectionNotReportableWitness ==
    /\ Raced(1) /\ calls[1].raw \in NativeErrors
    /\ calls[1].outcome.kind = "rejected" /\ calls[1].suppress
    /\ Raced(2) /\ calls[2].outcome = Resolved /\ ~ calls[2].suppress

\* each reason of the claim does end a call: a native error, the translated connection
\* failure, the timeout and the caller's token
EveryReasonRejects ==
    /\ \E c \in Callers : Raced(c) /\ calls[c].raw \in NativeErrors
                          /\ calls[c].outcome = Rejected(failedToConnect(calls[c].raw))
    /\ \E c \in Callers : TimedOut(c) \/ Cancelled(c)

----------------------------------------------------------------------------
(* Claims about tagImage *)

HasColon(str) == \E i \in DOMAIN str : str[i] = ":"

\* tagImage was called with a full tag that has a ':' and has handed its options on
Tagged == record.kind = "tagImage" /\ HasColon(engine.fullTag)

\* C35  tagImage splits the full tag at its last ':' into a repo and a tag, neither of which
\* contains the separating colon, so that repo + ':' + tag is the full tag passed in, for
\* every full tag with at least one ':'.
TagSplit ==
    Tagged =>
        /\ record.result.repo \o <<":">> \o record.result.tag = engine.fullTag
        /\ ~ HasColon(record.result.tag)

\* what the split does give: the repo is the text before the last ':' and the tag is the
\* rest, its leading ':' included, so that repo + tag is the full tag
TagSplitKeepsColon ==
    Tagged =>
        /\ record.result.repo \o record.result.tag = engine.fullTag
        /\ record.result.tag # <<>> /\ Head(record.result.tag) = ":"
        /\ ~ HasColon(Tail(record.result.tag))

----------------------------------------------------------------------------
(* Claims about the ServerReadyDetector *)

\* the outputs shown so far that match the pattern
Matching == {i \in DOMAIN detector.outputs : detector.outputs[i].matches}

FirstMatch == CHOOSE i \in Matching : \A j \in Matching : i <= j

\* C36  A ServerReadyDetector triggers its server-ready action at most once: over any
\* sequence of detectPattern calls the action is started on the first output that matches
\* and never again, even if that action fails or resolves no URL; outputs that do not match
\* start nothing.
AtMostOnce ==
    /\ Matching = {} => detector.actions = <<>>
    /\ Matching # {} => /\ Len(detector.actions) = 1
                        /\ detector.actions[1].at = FirstMatch

\* the action started by the first match threw, a second matching output followed, and
\* no second action was started
AtMostOnceWitness ==
    /\ Cardinality(Matching) >= 2
    /\ Len(detector.actions) = 1
    /\ detector.actions[1].st = "threw"
    /\ detector.outputs[1] = Output(FALSE, "")

----------------------------------------------------------------------------
(* Claims about the build cache *)

\* the latest call found cached metadata with an image id, the image in the engine and
\* both hashes unchanged
CacheIntact ==
    /\ build.last.before.stored /\ build.last.before.imageId # 0
    /\ build.last.exists
    /\ build.last.before.dockerfileHash = build.last.dockerfileHash
    /\ build.last.before.dockerIgnoreHash = build.last.dockerIgnoreHash

\* the latest call returned the cached image id and built nothing
ReturnedCached ==
    /\ build.last.built = 0
    /\ build.last.returned = build.last.before.imageId
    /\ build.metadata = build.last.before

\* the latest call made one build and stored its id, the current hashes and its options
BuiltAndStored ==
    /\ build.last.built = 1
    /\ build.last.returned # build.last.before.imageId
    /\ build.metadata = Metadata(build.last.dockerfileHash, build.last.dockerIgnoreHash,
                                 build.last.returned, build.last.options)

\* the entries of a dictionary option, an option that is not given having none
Entries(dict) == IF dict.defined THEN {<<k, dict.at[k]>> : k \in keys(dict)} ELSE {}

\* the two requests agree on context, tag, target, build args and labels
SameForBuild(o1, o2) ==
    /\ o1.context = o2.context /\ o1.tag = o2.tag /\ o1.target = o2.target
    /\ Entries(o1.args) = Entries(o2.args)
    /\ Entries(o1.labels) = Entries(o2.labels)

\* the two requests are equal: they agree on all of that and on the Dockerfile
EqualOptions(o1, o2) == SameForBuild(o1, o2) /\ o1.dockerfile = o2.dockerfile

----------------------------------------------------------------------------
(* Claims about the debug containers *)

\* cleanupAfterLaunch completes in this step
CleanupCompletes == launch.cleanup.pc # "done" /\ launch'.cleanup.pc = "done"

IdsIn(list) == {list[i] : i \in DOMAIN list}

\* position of a tracked id in a list without repetitions
Before(list, x, y) ==
    \E i, j \in DOMAIN list : i < j /\ list[i] = x /\ list[j] = y

\* C38  After cleanupAfterLaunch completes, the stored debug-container list is exactly the
\* tracked containers that matched a listed container and whose removal failed (in their
\* order); removed containers are dropped, and tracked containers that matched no listed
\* container are dropped without a removal attempt.
CleanupKeepsFailedOnly ==
    [][CleanupCompletes =>
          LET c == launch'.cleanup
              tracked == IdsIn(c.debugContainers)
          IN  /\ launch'.has
              /\ IdsIn(launch'.list) = {id \in tracked : id \in c.matched /\ c.tasks[id] = "failed"}
              /\ Len(launch'.list) = Cardinality(IdsIn(launch'.list))
              /\ \A x, y \in IdsIn(launch'.list) :
                     Before(launch'.list, x, y) => Before(c.debugContainers, x, y)
              /\ \A id \in tracked \ c.matched : c.tasks[id] = "none"
              /\ \A id \in c.matched : c.tasks[id] \in {"removed", "failed"}]_vars

\* a cleanup over two tracked containers has completed: "a" matched and its removal failed,
\* "b" matched nothing and was dropped untouched
CleanupKeepsFailedOnlyWitness ==
    /\ launch.cleanup.pc = "done"
    /\ launch.cleanup.debugContainers = <<"a", "b">>
    /\ launch.cleanup.matched = {"a"} /\ launch.cleanup.tasks["a"] = "failed"
    /\ launch.cleanup.tasks["b"] = "none"
    /\ launch.list = <<"a">>

\* C39  No lost tracking under interleaving: a container id recorded by prepareForLaunch
\* (addToDebugContainers) while a cleanupAfterLaunch is in progress is still in the stored
\* list after the cleanup finishes, unless that cleanup removed the container.
NoLostTracking ==
    launch.cleanup.pc = "done" =>
        \A id \in launch.during :
            id \in IdsIn(launch.list) \/ launch.cleanup.tasks[id] = "removed"

\* an id recorded while the removals were pending is gone from the stored list, and the
\* cleanup never tried to remove its container
LostWhileRemoving ==
    /\ launch.cleanup.pc = "done"
    /\ \E id \in launch.during :
          /\ id \notin IdsIn(launch.cleanup.debugContainers)
          /\ id \notin IdsIn(launch.list)
          /\ launch.cleanup.tasks[id] = "none"

\* ids recorded when no cleanup is in progress are kept until a cleanup deals with them
TrackedWhenQuiet ==
    [][(launch'.launched > launch.launched /\ ~ CleanupBusy) =>
          /\ launch'.has
          /\ launch'.list = Append(getDebugContainers(launch), NewIds[launch'.launched])]_vars

====
